---- MODULE Spec2Model ----
(***************************************************************************)
(* Aether-Link: the belief-fusion engine (src/src/logic/BayesianEngine.ts) *)
(* over the directed multigraph of src/src/logic/GraphModel.ts.            *)
(*                                                                         *)
(* Numbers.  A JavaScript number x is the integer x * Scale (micro-units), *)
(* products and quotients are rounded to the nearest micro-unit.  The BN   *)
(* runner, whose scores the code rounds to 5 decimals, is computed with    *)
(* exact fractions, so its rounding is the code's rounding.                *)
(* `undefined` is the empty sequence <<>>, a defined value v is <<v>>.     *)
(***************************************************************************)
EXTENDS Integers, Sequences, FiniteSets, TLC

VARIABLES
    nodes,            \* KnowledgeGraph.nodes: id -> GraphNode
    edges,            \* KnowledgeGraph.edges: sequence of GraphEdge
    adjacency,        \* KnowledgeGraph.adjacency: id -> sequence of target ids
    trainingEnabled,  \* BayesianEngine.trainingEnabled
    evidence,         \* the evidence argument of the last analyze call
    algorithms,       \* the algorithms argument of the last analyze call
    runs,             \* algorithm name -> AlgorithmResult of the last analyze call
    finalScores,      \* the map the last analyze call returned
    preNodes,         \* nodes as they were when the last analyze call started
    prevCall,         \* one of the analyze calls before the last one: arguments, start state, result
    calls,            \* number of analyze calls made so far
    twin,             \* the graph clone() returned, if one was made: nodes, edges, adjacency, shared
    lastOp,           \* the last operation: its name, the graph it was made on, operations so far
    sensitivity,      \* the last runSensitivityAnalysis call, if one was made: arguments, result, reruns
    isTraining        \* App.tsx: the training switch of the application

vars == <<nodes, edges, adjacency, trainingEnabled, evidence, algorithms, runs,
          finalScores, preNodes, prevCall, calls, twin, lastOp,
          sensitivity, isTraining>>

---------------------------------------------------------------------------
(* Fixed-point arithmetic                                                  *)

Scale == 1000 * 1000
Kilo == 10 * 100

Abs(x) == IF x < 0 THEN 0 - x ELSE x
Min2(a, b) == IF a < b THEN a ELSE b
Max2(a, b) == IF a > b THEN a ELSE b
Sign(x) == IF x < 0 THEN 0 - 1 ELSE 1

\* Force a function to its explicit form (one evaluation of each value).
Force(f) == f @@ <<>>

\* a * b / Scale for a, b >= 0, rounded to nearest, without leaving 32 bits.
MulU(a, b) ==
    LET ah == a \div Kilo
        al == a % Kilo
        bh == b \div Kilo
        bl == b % Kilo
        X == ah * bl + al * bh
        Z == al * bl + (Scale \div 2)
    IN ah * bh + ((X + (Z \div Kilo)) \div Kilo)

Mul(a, b) == Sign(a) * Sign(b) * MulU(Abs(a), Abs(b))

\* a / n for an integer count n > 0, rounded to nearest.
DivInt(a, n) == Sign(a) * ((2 * Abs(a) + n) \div (2 * n))

\* <<quotient, remainder>> of a * b / c for b >= 0, c > 0 (long
\* multiplication in base 100, exact); both carry the sign of a.
RECURSIVE MulDivQR(_, _, _)
MulDivQR(a, b, c) ==
    IF a = 0 THEN <<0, 0>>
    ELSE IF a < 0 THEN LET qr == MulDivQR(0 - a, b, c) IN <<0 - qr[1], 0 - qr[2]>>
    ELSE LET hi == MulDivQR(a \div 100, b, c)
             t == hi[2] * 100 + (a % 100) * b
         IN <<hi[1] * 100 + (t \div c), t % c>>

\* a / b as a fixed-point number (a >= 0, b > 0), rounded to nearest.
DivU(a, b) ==
    LET qr == MulDivQR(a, Scale, b)
    IN (IF b <= 2 * qr[2] THEN 1 ELSE 0) + qr[1]

Div(a, b) == Sign(a) * Sign(b) * DivU(Abs(a), Abs(b))

\* Number.toFixed(d) followed by parseFloat: x rounded to a multiple of q
\* micro-units, half up (x >= 0).
RoundTo(x, q) == ((x + (q \div 2)) \div q) * q
ToFixed4(x) == RoundTo(x, 100)
ToFixed5(x) == RoundTo(x, 10)

RECURSIVE SeqSum(_)
SeqSum(s) == IF s = <<>> THEN 0 ELSE Head(s) + SeqSum(Tail(s))

RECURSIVE SeqMinOf(_, _)
\* min over the sequence s of ids of m[id], starting from the first element
SeqMinOf(s, m) ==
    IF Len(s) = 1 THEN m[s[1]]
    ELSE Min2(m[s[1]], SeqMinOf(Tail(s), m))

Includes(seq, x) == \E i \in 1..Len(seq) : seq[i] = x

Undefined == <<>>
Some(v) == <<v>>
IsDef(o) == o # <<>>
Val(o) == o[1]

---------------------------------------------------------------------------
(* GraphModel.ts                                                           *)

\* KnowledgeGraph.getParents(nodeId)
GetParents(E, nodeId) ==
    LET idx == SelectSeq([i \in 1..Len(E) |-> i], LAMBDA i : E[i].target = nodeId)
    IN [k \in 1..Len(idx) |-> E[idx[k]].source]

\* the list rebuildAdjacency stores for one node id
Targets(E, nodeId) ==
    LET idx == SelectSeq([i \in 1..Len(E) |-> i], LAMBDA i : E[i].source = nodeId)
    IN [k \in 1..Len(idx) |-> E[idx[k]].target]

\* KnowledgeGraph.rebuildAdjacency()
RebuildAdjacency(N, E) ==
    [id \in (DOMAIN N) \cup {E[i].source : i \in DOMAIN E} |-> Targets(E, id)]

\* this.graph.adjacency.get(id) || []
Children(adj, id) == IF id \in DOMAIN adj THEN adj[id] ELSE <<>>

\* a KnowledgeGraph as a value: its three fields
Graph(N, E, adj) == [nodes |-> N, edges |-> E, adjacency |-> adj]

\* KnowledgeGraph.addNode(node) with adjacency.set(node.id, []) done
\* whether or not the id has an entry
AddNodeResetsAdjacency(G, node) ==
    Graph((node.id :> node) @@ G.nodes, G.edges, (node.id :> <<>>) @@ G.adjacency)

\* KnowledgeGraph.addNode(node)
AddNode(G, node) ==
    Graph((node.id :> node) @@ G.nodes, G.edges,
          IF node.id \in DOMAIN G.adjacency THEN G.adjacency
          ELSE (node.id :> <<>>) @@ G.adjacency)

\* this.edges.filter(e => e.source !== nodeId && e.target !== nodeId)
NotIncident(E, nodeId) ==
    SelectSeq(E, LAMBDA e : e.source # nodeId /\ e.target # nodeId)

\* the nodes map after nodes.delete(nodeId)
Delete(N, nodeId) == [id \in (DOMAIN N) \ {nodeId} |-> N[id]]

\* KnowledgeGraph.removeNode(nodeId)
RemoveNode(G, nodeId) ==
    Graph(Delete(G.nodes, nodeId), NotIncident(G.edges, nodeId),
          RebuildAdjacency(Delete(G.nodes, nodeId), NotIncident(G.edges, nodeId)))

\* KnowledgeGraph.addEdge(edge)
AddEdge(G, edge) ==
    Graph(G.nodes, Append(G.edges, edge), RebuildAdjacency(G.nodes, Append(G.edges, edge)))

\* this.edges.filter(e => e.id !== edgeId)
OtherEdges(E, edgeId) == SelectSeq(E, LAMBDA e : e.id # edgeId)

\* KnowledgeGraph.removeEdge(edgeId)
RemoveEdge(G, edgeId) ==
    Graph(G.nodes, OtherEdges(G.edges, edgeId),
          RebuildAdjacency(G.nodes, OtherEdges(G.edges, edgeId)))

\* JSON.parse(JSON.stringify(x)) of an optional number: a property that is
\* undefined is left out by stringify and absent after parse; a finite
\* number is written in full and read back as the same number (the numbers
\* of this model are finite)
JsonOptional(x) == IF IsDef(x) THEN Some(Val(x)) ELSE Undefined

\* JSON.parse(JSON.stringify(m)) of a Record<string, number>
JsonRecord(m) == [k \in DOMAIN m |-> m[k]]

\* JSON.parse(JSON.stringify(m)) of an optional Record<string, number>
JsonOptionalRecord(m) == IF IsDef(m) THEN Some(JsonRecord(Val(m))) ELSE Undefined

\* JSON.parse(JSON.stringify(node.modelParams))
JsonParams(p) ==
    [weights |-> JsonOptionalRecord(p.weights),
     attention |-> JsonOptionalRecord(p.attention),
     bias |-> JsonOptional(p.bias),
     learningRate |-> JsonOptional(p.learningRate),
     lastError |-> JsonOptional(p.lastError)]

\* JSON.parse(JSON.stringify(node)): a new object for the node and for each
\* object it holds
JsonClone(node) ==
    [id |-> node.id, type |-> node.type, context |-> node.context,
     working |-> JsonOptional(node.working),
     customAttributes |-> JsonRecord(node.customAttributes),
     tags |-> [i \in DOMAIN node.tags |-> node.tags[i]],
     modelParams |-> IF IsDef(node.modelParams)
                     THEN Some(JsonParams(Val(node.modelParams)))
                     ELSE Undefined]

\* new KnowledgeGraph(this.nodes, this.edges) in place of clone(): a new
\* Map and a new array that hold the node objects of the original.  shared
\* is the set of ids whose node object the two graphs have in common.
CloneShallow(G) ==
    [nodes |-> G.nodes, edges |-> G.edges,
     adjacency |-> RebuildAdjacency(G.nodes, G.edges), shared |-> DOMAIN G.nodes]

\* KnowledgeGraph.clone(): a new object for every node and every edge, so
\* the graphs share no node object
Clone(G) ==
    [nodes |-> [id \in DOMAIN G.nodes |-> JsonClone(G.nodes[id])],
     edges |-> [i \in DOMAIN G.edges |->
                  [id |-> G.edges[i].id, source |-> G.edges[i].source,
                   target |-> G.edges[i].target]],
     adjacency |-> RebuildAdjacency([id \in DOMAIN G.nodes |-> JsonClone(G.nodes[id])],
                                    G.edges),
     shared |-> {}]

---------------------------------------------------------------------------
(* BayesianEngine.ts: the Prior Estimator                                  *)

DefaultPrior == 950000
QualHigh == 980000
QualMedium == 850000
QualLow == 600000
TagBlendDefault == 400000
TagBlendFactors == 600000

\* the sum of f[k] over the keys k in S: sum[T, acc] is acc plus the sum
\* over the keys still in T
SumOver(f, S) ==
    LET sum[T \in SUBSET S, acc \in Int] ==
            IF T = {} THEN acc
            ELSE sum[T \ {CHOOSE x \in T : TRUE}, acc + f[CHOOSE x \in T : TRUE]]
    IN sum[S, 0]

QualitativeKeys == {"status", "quality", "health"}

\* The confidence one tag yields (parsedConfidence), as an optional value.
\* A tag value is held parsed: kind "percent" (the text ends in '%', num is
\* what parseFloat reads, nan when it reads none), "number" (parseFloat reads
\* num) or "text" (anything else, lower-cased in text).
TagFactor(tag) ==
    IF tag.kind = "percent"
    THEN IF tag.nan THEN Undefined ELSE Some(DivInt(tag.num, 100))
    ELSE IF tag.kind = "number" /\ tag.num <= Scale THEN Some(tag.num)
    ELSE IF tag.key \in QualitativeKeys
    THEN IF tag.text \in {"high", "ok", "good"} THEN Some(QualHigh)
         ELSE IF tag.text \in {"medium", "fair"} THEN Some(QualMedium)
         ELSE IF tag.text \in {"low", "poor", "bad"} THEN Some(QualLow)
         ELSE Undefined
    ELSE Undefined

RECURSIVE TagFactors(_)
\* validFactors after the scan of node.tags
TagFactors(tags) ==
    IF tags = <<>> THEN <<>>
    ELSE TagFactor(Head(tags)) \o TagFactors(Tail(tags))

\* the estimate from node.tags (validFactors) or, without a valid factor,
\* from beliefs['working'] or the default
TagPrior(node, validFactors) ==
    IF Len(validFactors) > 0
    THEN Mul(DefaultPrior, TagBlendDefault)
         + Mul(DivInt(SeqSum(validFactors), Len(validFactors)), TagBlendFactors)
    ELSE IF IsDef(node.working) THEN Val(node.working)
    ELSE DefaultPrior

\* getNodePrior with the learned bias of the node added to the estimate
GetNodePriorWithLearnedBias(node) ==
    (IF DOMAIN node.customAttributes # {}
     THEN DivInt(SumOver(node.customAttributes, DOMAIN node.customAttributes),
                 Cardinality(DOMAIN node.customAttributes))
     ELSE TagPrior(node, TagFactors(node.tags)))
    + (IF IsDef(node.modelParams) /\ IsDef(Val(node.modelParams).bias)
       THEN Val(Val(node.modelParams).bias) ELSE 0)

\* getNodePrior with the stored belief tried before the tags
GetNodePriorBeliefFirst(node) ==
    IF DOMAIN node.customAttributes # {}
    THEN DivInt(SumOver(node.customAttributes, DOMAIN node.customAttributes),
                Cardinality(DOMAIN node.customAttributes))
    ELSE IF IsDef(node.working) THEN Val(node.working)
    ELSE TagPrior(node, TagFactors(node.tags))

\* BayesianEngine.getNodePrior(node)
GetNodePrior(node) ==
    IF DOMAIN node.customAttributes # {}
    THEN DivInt(SumOver(node.customAttributes, DOMAIN node.customAttributes),
                Cardinality(DOMAIN node.customAttributes))
    ELSE TagPrior(node, TagFactors(node.tags))

\* evidence[node.id] ?? this.getNodePrior(node), for every node
InitialScores(N, ev) ==
    Force([id \in DOMAIN N |-> IF id \in DOMAIN ev THEN ev[id] ELSE GetNodePrior(N[id])])

\* scores.get(id) ?? dflt
GetOr(m, id, dflt) == IF id \in DOMAIN m THEN m[id] ELSE dflt

RECURSIVE MinOr(_, _, _)
\* the first value, then Math.min with each later one, of m.get(id) ?? dflt
MinOr(s, m, dflt) ==
    IF Len(s) = 1 THEN GetOr(m, s[1], dflt)
    ELSE Min2(GetOr(m, s[1], dflt), MinOr(Tail(s), m, dflt))

\* the largest of 0 and f[k] over the keys k in S
MaxOver(f, S) ==
    CHOOSE m \in {0} \cup {f[k] : k \in S} : \A k \in S : f[k] <= m

---------------------------------------------------------------------------
(* Algorithm 1: Bayesian Network (loopy belief propagation)                *)

BNMaxIter == 50
\* maxDelta is held in units of 1/450 micro-unit, the common denominator of
\* the four damped blends; Delta450(x) is the number x in these units.
Delta450(x) == 450 * x
BNTolerance == 100
BNMinReliability == 100000

\* finalScore = calculatedScore * 0.8 + oldScore * 0.2 for calculatedScore =
\* num2 / den2, as the exact fraction finalNum / finalDen (the damping 0.2 is
\* 1/5): the score rounded to 5 decimals and |finalScore - oldScore| in
\* 1/450 micro-units.
BNDamp(num2, den2, oldScore) ==
    [score |-> ((4 * num2 + den2 * oldScore + 25 * den2) \div (50 * den2)) * 10,
     diff |-> Abs(4 * num2 + den2 * oldScore - oldScore * 5 * den2)
              * (450 \div (5 * den2))]

\* BNNode with the default messages pi = lambda = 1.0 blended in even for a
\* node without parents or children
BNNodeDefaultMessages(N, E, adj, confidenceScores, id) ==
    BNDamp(2 * GetNodePrior(N[id])
           + 3 * (IF Len(GetParents(E, id)) > 0
                  THEN MinOr(GetParents(E, id), confidenceScores, DefaultPrior)
                  ELSE Scale)
           + 4 * (IF Len(Children(adj, id)) > 0
                  THEN MinOr(Children(adj, id), confidenceScores, DefaultPrior)
                  ELSE Scale),
           9, confidenceScores[id])

\* BNNode without the causal message: the parents are not looked at
BNNodeWithoutParents(N, E, adj, confidenceScores, id) ==
    BNDamp(2 * GetNodePrior(N[id])
           + (IF Len(Children(adj, id)) > 0
              THEN 4 * MinOr(Children(adj, id), confidenceScores, DefaultPrior)
              ELSE 0),
           2 + (IF Len(Children(adj, id)) > 0 THEN 4 ELSE 0),
           confidenceScores[id])

\* One node of one relaxation pass.  The weights 1.0, 1.5, 2.0 of the
\* prior, pi (parents) and lambda (children) are doubled: 2, 3, 4.
BNNode(N, E, adj, confidenceScores, id) ==
    BNDamp(2 * GetNodePrior(N[id])
           + (IF Len(GetParents(E, id)) > 0
              THEN 3 * MinOr(GetParents(E, id), confidenceScores, DefaultPrior)
              ELSE 0)
           + (IF Len(Children(adj, id)) > 0
              THEN 4 * MinOr(Children(adj, id), confidenceScores, DefaultPrior)
              ELSE 0),
           2 + (IF Len(GetParents(E, id)) > 0 THEN 3 ELSE 0)
             + (IF Len(Children(adj, id)) > 0 THEN 4 ELSE 0),
           confidenceScores[id])

\* nextScores after a pass: the scores of upd over those of `scores`
MergeScores(scores, upd) ==
    Force([id \in DOMAIN scores |->
             IF id \in DOMAIN upd THEN upd[id].score ELSE scores[id]])

\* the largest |change| of a pass (0 when no node was updated)
MaxDiff(upd) == MaxOver([id \in DOMAIN upd |-> upd[id].diff], DOMAIN upd)

\* the loop state after a pass that updated the nodes of upd
BNNext(st, upd) ==
    [iter |-> st.iter + 1, maxDelta |-> MaxDiff(upd),
     scores |-> MergeScores(st.scores, upd)]

\* One pass of the while loop over all nodes.
BNPass(N, E, adj, ev, st) ==
    BNNext(st, Force([id \in (DOMAIN N) \ (DOMAIN ev) |->
                        BNNode(N, E, adj, st.scores, id)]))

RECURSIVE BNLoopToCap(_, _, _, _, _)
\* the while loop without the test against the tolerance
BNLoopToCap(N, E, adj, ev, st) ==
    IF st.iter < BNMaxIter
    THEN BNLoopToCap(N, E, adj, ev, BNPass(N, E, adj, ev, st))
    ELSE st

RECURSIVE BNLoop(_, _, _, _, _)
\* while (iter < maxIter && maxDelta > tolerance)
BNLoop(N, E, adj, ev, st) ==
    IF st.iter < BNMaxIter /\ st.maxDelta > Delta450(BNTolerance)
    THEN BNLoop(N, E, adj, ev, BNPass(N, E, adj, ev, st))
    ELSE st

\* the state the while loop of runBN ends in
BNFinal(N, E, adj, ev) ==
    BNLoop(N, E, adj, ev,
           [iter |-> 0, maxDelta |-> Delta450(Scale), scores |-> InitialScores(N, ev)])

\* Math.max(0.1, 1.0 - maxDelta * 100), halved at the cap without convergence
BNReliability(st) ==
    LET r == Max2(BNMinReliability, Scale - DivInt(st.maxDelta * 2, 9))
    IN IF st.iter = BNMaxIter /\ st.maxDelta > Delta450(BNTolerance)
       THEN DivInt(r, 2) ELSE r

\* the AlgorithmResult for the state the while loop ends in
BNResult(st) == [scores |-> st.scores, reliability |-> BNReliability(st)]

\* BayesianEngine.runBN(evidence)
RunBN(N, E, adj, ev) == BNResult(BNFinal(N, E, adj, ev))

---------------------------------------------------------------------------
(* Algorithm 4: Decision Tree                                              *)

DTPasses == 5
DTReliability == 600000

RECURSIVE MinFrom(_, _, _)
\* Math.min folded over the ids of s, starting from start
MinFrom(start, s, m) ==
    IF s = <<>> THEN start
    ELSE MinFrom(Min2(start, m[s[1]]), Tail(s), m)

\* DTPass without the evidence check: evidence nodes are recomputed
DTPassOverEvidence(N, E, ev, scores) ==
    Force([id \in DOMAIN N |->
        LET parents == GetParents(E, id)
        IN IF Len(parents) > 0
           THEN Min2(MinFrom(Scale, parents, scores), GetNodePrior(N[id]))
           ELSE scores[id]])

\* DTPass without the cap: the minimum of the parents' scores alone
DTPassUncapped(N, E, ev, scores) ==
    Force([id \in DOMAIN N |->
        IF id \in DOMAIN ev THEN scores[id]
        ELSE LET parents == GetParents(E, id)
             IN IF Len(parents) > 0
                THEN MinFrom(Scale, parents, scores)
                ELSE scores[id]])

\* One of the 5 passes over all nodes.
DTPass(N, E, ev, scores) ==
    Force([id \in DOMAIN N |->
        IF id \in DOMAIN ev THEN scores[id]
        ELSE LET parents == GetParents(E, id)
             IN IF Len(parents) > 0
                THEN Min2(MinFrom(Scale, parents, scores), GetNodePrior(N[id]))
                ELSE scores[id]])

RECURSIVE DTLoop(_, _, _, _)
DTLoop(N, E, ev, st) ==
    IF st.i < DTPasses
    THEN DTLoop(N, E, ev, [i |-> st.i + 1, scores |-> DTPass(N, E, ev, st.scores)])
    ELSE st

\* BayesianEngine.runDT(evidence)
RunDT(N, E, ev) ==
    [scores |-> DTLoop(N, E, ev, [i |-> 0, scores |-> InitialScores(N, ev)]).scores,
     reliability |-> DTReliability]


---------------------------------------------------------------------------
(* Learned parameters: node.modelParams                                    *)

\* [...parents, ...children]
GetNeighbors(E, adj, id) == GetParents(E, id) \o Children(adj, id)

\* the set of ids in a sequence
Range(s) == {s[i] : i \in DOMAIN s}

EmptyParams ==
    [weights |-> Undefined, attention |-> Undefined, bias |-> Undefined,
     learningRate |-> Undefined, lastError |-> Undefined]

\* if (!node.modelParams) node.modelParams = {}
ParamsOf(node) == IF IsDef(node.modelParams) THEN Val(node.modelParams) ELSE EmptyParams

\* if (!node.modelParams.learningRate): undefined and 0 are both falsy
Falsy(o) == ~IsDef(o) \/ Val(o) = 0

\* FillMissing that sets the entry of every neighbor anew
FillMissingAnew(opt, neighbors, fresh) ==
    LET old == IF IsDef(opt) THEN Val(opt) ELSE <<>>
    IN Force([nid \in (DOMAIN old) \cup Range(neighbors) |->
                IF nid \in Range(neighbors) THEN fresh[nid] ELSE old[nid]])

\* a weights/attention map with the entries of the map `fresh` added for the
\* neighbors it has no entry for
FillMissing(opt, neighbors, fresh) ==
    LET old == IF IsDef(opt) THEN Val(opt) ELSE <<>>
    IN Force([nid \in (DOMAIN old) \cup Range(neighbors) |->
                IF nid \in DOMAIN old THEN old[nid] ELSE fresh[nid]])

RECURSIVE DotSeq(_, _, _, _)
\* sum over the neighbor list of (scores[nid] - shift) * w[nid]
DotSeq(neighbors, scores, w, shift) ==
    IF neighbors = <<>> THEN 0
    ELSE Mul(scores[Head(neighbors)] - shift, w[Head(neighbors)])
         + DotSeq(Tail(neighbors), scores, w, shift)

\* how many entries of the list s are x
Occurrences(s, x) == Cardinality({i \in DOMAIN s : s[i] = x})

\* w[nid] -= lr * (coef * (scores[nid] - shift)), once per entry of the
\* neighbor list: every step for nid subtracts the same amount
DescendSeq(neighbors, scores, w, shift, coef, lr) ==
    Force([k \in DOMAIN w |->
             IF Occurrences(neighbors, k) = 0 THEN w[k]
             ELSE w[k] - Occurrences(neighbors, k)
                         * Mul(lr, Mul(coef, scores[k] - shift))])

\* the value without the clamp
Unclamped(x) == x

\* Math.max(0, Math.min(1, x))
Clamp01(x) == Max2(0, Min2(Scale, x))

---------------------------------------------------------------------------
(* Algorithm 5: Linear Regression (online SGD)                             *)

LRSteps == 5
LRLearningRate == 10000
LRBaseReliability == 950000
LRMinReliability == 100000
Half == 500000

\* A. Parameter Initialization (lazy): the modelParams p0 with weights, bias
\* and learningRate defined, a missing weight set to `fresh`
InitParams(p0, neighbors, fresh, learningRate) ==
    [p0 EXCEPT !.weights = Some(FillMissing(p0.weights, neighbors,
                                            [nid \in Range(neighbors) |-> fresh])),
               !.bias = Some(IF IsDef(p0.bias) THEN Val(p0.bias) ELSE 0),
               !.learningRate = Some(IF Falsy(p0.learningRate) THEN learningRate
                                     ELSE Val(p0.learningRate))]

\* C, D, E for the prediction of the forward pass: the node with weights and
\* bias descended (when training) and lastError stored, the blended score
\* and the change
LRBackward(node, neighbors, scores, training, p, predictedVal, targetVal) ==
    [score |-> Mul(predictedVal, Half) + Mul(targetVal, Half),
     diff |-> Abs(Mul(predictedVal, Half) + Mul(targetVal, Half) - scores[node.id]),
     node |-> [node EXCEPT !.modelParams =
         Some([p EXCEPT
                 !.lastError = Some(Abs(predictedVal - targetVal)),
                 !.bias = Some(IF training
                               THEN Val(p.bias)
                                    - Mul(Val(p.learningRate), predictedVal - targetVal)
                               ELSE Val(p.bias)),
                 !.weights = Some(IF training
                                  THEN DescendSeq(neighbors, scores, Val(p.weights), 0,
                                                  predictedVal - targetVal,
                                                  Val(p.learningRate))
                                  ELSE Val(p.weights))])]]

\* B. Forward pass with the initialised parameters p, then C, D, E
LRForward(node, neighbors, scores, training, p) ==
    LRBackward(node, neighbors, scores, training, p,
               Clamp01(Val(p.bias) + DotSeq(neighbors, scores, Val(p.weights), 0)),
               GetNodePrior(node))

\* LRNode without the trainingEnabled checks: weights and bias always descend
LRNodeAlwaysTrains(node, neighbors, scores, training) ==
    LRForward(node, neighbors, scores, TRUE,
              InitParams(ParamsOf(node), neighbors, DivInt(Scale, Len(neighbors)),
                         LRLearningRate))

\* The forEach body of one step for one non-evidence node with neighbors:
\* the node with its parameters updated, the blended score and the change.
LRNode(node, neighbors, scores, training) ==
    LRForward(node, neighbors, scores, training,
              InitParams(ParamsOf(node), neighbors, DivInt(Scale, Len(neighbors)),
                         LRLearningRate))

\* the nodes after a step: those of upd over those of N
MergeNodes(N, upd) ==
    Force([id \in DOMAIN N |-> IF id \in DOMAIN upd THEN upd[id].node ELSE N[id]])

\* the loop state after a step that updated the nodes of upd
LearnNext(st, upd) ==
    [i |-> st.i + 1, maxChange |-> MaxDiff(upd),
     nodes |-> MergeNodes(st.nodes, upd), scores |-> MergeScores(st.scores, upd)]

\* One of the 5 steps over all nodes.  A node is skipped when it has
\* evidence or no neighbors.
LRPass(E, adj, ev, training, st) ==
    LearnNext(st, Force([id \in {n \in DOMAIN st.nodes :
                                   n \notin DOMAIN ev
                                   /\ Len(GetNeighbors(E, adj, n)) > 0} |->
                LRNode(st.nodes[id], GetNeighbors(E, adj, id), st.scores, training)]))

RECURSIVE LRLoop(_, _, _, _, _)
LRLoop(E, adj, ev, training, st) ==
    IF st.i < LRSteps
    THEN LRLoop(E, adj, ev, training, LRPass(E, adj, ev, training, st))
    ELSE st

\* the AlgorithmResult, and the node map left, for the state the loop ends in
LRResult(st) ==
    [scores |-> st.scores,
     reliability |-> Max2(LRMinReliability, LRBaseReliability - 10 * st.maxChange),
     nodes |-> st.nodes]

\* BayesianEngine.runLinearRegression(evidence); nodes is the node map it
\* leaves (modelParams are updated in place)
RunLinearRegression(N, E, adj, ev, training) ==
    LRResult(LRLoop(E, adj, ev, training,
                    [i |-> 0, maxChange |-> 0, nodes |-> N,
                     scores |-> InitialScores(N, ev)]))

---------------------------------------------------------------------------
(* Math.exp                                                                *)

\* e^-n for n = 0..14, in micro-units
ExpNegTable ==
    <<1000000, 367879, 135335, 49787, 18316, 6738, 2479, 912, 335, 123, 45, 17, 6, 2, 1>>

\* 1 - f/k (1 - f/(k+1) (1 - ...)): the series of e^-f for 0 <= f < 1, from
\* term k on, by Horner's rule from the innermost factor (term 10) outwards
ExpSeries(f, k) ==
    LET horner[j \in 0..10, inner \in 0..Scale] ==
            IF j < k THEN inner
            ELSE horner[j - 1, Scale - DivInt(Mul(f, inner), j)]
    IN horner[10, Scale]

\* Math.exp(-x) for x >= 0
ExpNeg(x) ==
    LET n == x \div Scale
    IN IF n >= Len(ExpNegTable) THEN 0
       ELSE Mul(ExpNegTable[n + 1], ExpSeries(x % Scale, 1))

\* 1.0 / (1.0 + Math.exp(-logit))
Sigmoid(logit) ==
    IF logit >= 0 THEN DivU(Scale, Scale + ExpNeg(logit))
    ELSE LET e == ExpNeg(0 - logit) IN DivU(e, Scale + e)

---------------------------------------------------------------------------
(* Algorithm 6: Logistic Regression (online SGD, sigmoid)                  *)

LogRegSteps == 5
LogRegLearningRate == 50000
LogRegEvidenceRate == 200000
LogRegBaseReliability == 980000
LogRegMinReliability == 200000
LogRegModelTrust == 600000
LogRegTargetTrust == 400000

\* D, E for the prediction of the forward pass and the learning rate lr
LogRegBackward(node, neighbors, scores, isEvidence, training, p, prediction, targetVal, lr) ==
    [score |-> IF isEvidence THEN scores[node.id]
               ELSE Mul(prediction, LogRegModelTrust) + Mul(targetVal, LogRegTargetTrust),
     diff |-> IF isEvidence THEN 0
              ELSE Abs(Mul(prediction, LogRegModelTrust)
                       + Mul(targetVal, LogRegTargetTrust) - scores[node.id]),
     node |-> [node EXCEPT !.modelParams =
         Some([p EXCEPT
                 !.lastError = Some(Abs(prediction - targetVal)),
                 !.bias = Some(IF training
                               THEN Val(p.bias)
                                    - Mul(Mul(lr, prediction - targetVal),
                                          Mul(prediction, Scale - prediction))
                               ELSE Val(p.bias)),
                 !.weights = Some(IF training
                                  THEN DescendSeq(neighbors, scores, Val(p.weights), Half,
                                                  Mul(prediction - targetVal,
                                                      Mul(prediction, Scale - prediction)),
                                                  lr)
                                  ELSE Val(p.weights))])]]

\* B, C with the initialised parameters p: the prediction, the target
\* (the evidence value of an evidence node) and the learning rate
LogRegForward(node, neighbors, scores, ev, training, p) ==
    LogRegBackward(node, neighbors, scores, node.id \in DOMAIN ev, training, p,
                   Sigmoid(Val(p.bias) + DotSeq(neighbors, scores, Val(p.weights), Half)),
                   IF node.id \in DOMAIN ev THEN ev[node.id] ELSE GetNodePrior(node),
                   IF node.id \in DOMAIN ev THEN LogRegEvidenceRate
                   ELSE Val(p.learningRate))

\* The forEach body of one step for one node with neighbors.
LogRegNode(node, neighbors, scores, ev, training) ==
    LogRegForward(node, neighbors, scores, ev, training,
                  InitParams(ParamsOf(node), neighbors, Scale, LogRegLearningRate))

LogRegPass(E, adj, ev, training, st) ==
    LearnNext(st, Force([id \in {n \in DOMAIN st.nodes :
                                   Len(GetNeighbors(E, adj, n)) > 0} |->
                LogRegNode(st.nodes[id], GetNeighbors(E, adj, id), st.scores, ev,
                           training)]))

RECURSIVE LogRegLoop(_, _, _, _, _)
LogRegLoop(E, adj, ev, training, st) ==
    IF st.i < LogRegSteps
    THEN LogRegLoop(E, adj, ev, training, LogRegPass(E, adj, ev, training, st))
    ELSE st

\* the AlgorithmResult, and the node map left, for the state the loop ends in
LogRegResult(st) ==
    [scores |-> st.scores,
     reliability |-> Max2(LogRegMinReliability,
                          LogRegBaseReliability - 8 * st.maxChange),
     nodes |-> st.nodes]

\* BayesianEngine.runLogisticRegression(evidence)
RunLogisticRegression(N, E, adj, ev, training) ==
    LogRegResult(LogRegLoop(E, adj, ev, training,
                            [i |-> 0, maxChange |-> 0, nodes |-> N,
                             scores |-> InitialScores(N, ev)]))


---------------------------------------------------------------------------
(* Algorithm 7: Variational Inference (mean field)                         *)

VIIterations == 15
VINeighborShare == 800000
VIPriorShare == 200000
VIKeep == 300000
VIMove == 700000
VIMinReliability == 100000

RECURSIVE SumSeq(_, _)
\* the sum of m[id] over the id list s
SumSeq(s, m) == IF s = <<>> THEN 0 ELSE m[Head(s)] + SumSeq(Tail(s), m)

\* newVal = current * 0.3 + target * 0.7, and the change
VIMoveTo(current, target) ==
    [score |-> Mul(current, VIKeep) + Mul(target, VIMove),
     diff |-> Abs(Mul(current, VIKeep) + Mul(target, VIMove) - current)]

\* One node of one iteration: the new mean and the change.
VINode(node, neighbors, means) ==
    VIMoveTo(means[node.id],
             Mul(DivInt(SumSeq(neighbors, means), Len(neighbors)), VINeighborShare)
             + Mul(GetNodePrior(node), VIPriorShare))

\* the loop state after an iteration that updated the nodes of upd
VINext(st, upd) ==
    [iter |-> st.iter + 1, maxDelta |-> MaxDiff(upd),
     means |-> MergeScores(st.means, upd)]

VIPass(N, E, adj, ev, st) ==
    VINext(st, Force([id \in {n \in DOMAIN N :
                                n \notin DOMAIN ev /\ Len(GetNeighbors(E, adj, n)) > 0} |->
                VINode(N[id], GetNeighbors(E, adj, id), st.means)]))

RECURSIVE VILoop(_, _, _, _, _)
VILoop(N, E, adj, ev, st) ==
    IF st.iter < VIIterations
    THEN VILoop(N, E, adj, ev, VIPass(N, E, adj, ev, st))
    ELSE st

\* the AlgorithmResult for the state the loop ends in
VIResult(st) ==
    [scores |-> st.means,
     reliability |-> Max2(VIMinReliability, Scale - 10 * st.maxDelta)]

\* BayesianEngine.runVI(evidence)
RunVI(N, E, adj, ev) ==
    VIResult(VILoop(N, E, adj, ev,
                    [iter |-> 0, maxDelta |-> 0, means |-> InitialScores(N, ev)]))

---------------------------------------------------------------------------
(* Algorithm 8: Graph Transformer (self-attention, online learning)        *)

TransformerLayers == 3
SimContext == 1000000
SimType == 500000
AttentionRate == 50000
ResidualKeep == 200000
ResidualContext == 800000
TransformerMinReliability == 100000

\* the logit a missing attention entry is initialised to
Similarity(node, neighborNode) ==
    (IF neighborNode.context = node.context THEN SimContext ELSE 0)
    + (IF neighborNode.type = node.type THEN SimType ELSE 0)

RECURSIVE MaxSeq(_, _)
\* the largest of m[id] over the non-empty id list s
MaxSeq(s, m) ==
    IF Len(s) = 1 THEN m[s[1]] ELSE Max2(m[s[1]], MaxSeq(Tail(s), m))

\* attention[nid] -= lr * grad, once per entry of the neighbor list, with
\* grad = error * (scores[nid] - contextVector) * weight[nid]: every step
\* for nid subtracts the same amount
AttendSeq(neighbors, scores, attention, weight, error, contextVector) ==
    Force([k \in DOMAIN attention |->
             IF Occurrences(neighbors, k) = 0 THEN attention[k]
             ELSE attention[k]
                  - Occurrences(neighbors, k)
                    * Mul(AttentionRate,
                          Mul(Mul(error, scores[k] - contextVector), weight[k]))])

RECURSIVE NormaliseTimes(_, _, _)
\* x divided by sumExp, k times
NormaliseTimes(x, sumExp, k) ==
    IF k = 0 THEN x ELSE NormaliseTimes(DivU(x, sumExp), sumExp, k - 1)

\* B.2: the exponentials exp(logit - maxLogit), keyed by neighbor id
Exponentials(neighbors, attention, maxLogit) ==
    Force([nid \in Range(neighbors) |-> ExpNeg(maxLogit - attention[nid])])

\* B.3: the normalised attention weights.  The map is keyed by id, so a
\* repeated neighbor is divided by sumExp once per occurrence.
Normalise(neighbors, exps, sumExp) ==
    Force([nid \in Range(neighbors) |->
             NormaliseTimes(exps[nid], sumExp, Occurrences(neighbors, nid))])

\* D, E for the context vector of the aggregation
TransformerBackward(node, neighbors, scores, p, attentionWeights, contextVector) ==
    [score |-> Mul(scores[node.id], ResidualKeep) + Mul(contextVector, ResidualContext),
     diff |-> Abs(Mul(scores[node.id], ResidualKeep)
                  + Mul(contextVector, ResidualContext) - scores[node.id]),
     node |-> [node EXCEPT !.modelParams =
         Some([p EXCEPT !.attention =
                 Some(AttendSeq(neighbors, scores, Val(p.attention), attentionWeights,
                                contextVector - GetNodePrior(node), contextVector))])]]

\* C: the context vector for the attention weights
TransformerAggregate(node, neighbors, scores, p, attentionWeights) ==
    TransformerBackward(node, neighbors, scores, p, attentionWeights,
                        DotSeq(neighbors, scores, attentionWeights, 0))

\* B.2, B.3: softmax of the logits of p
TransformerSoftmax(node, neighbors, scores, p, exps) ==
    TransformerAggregate(node, neighbors, scores, p,
                         Normalise(neighbors, exps, SumSeq(neighbors, exps)))

\* B with the initialised parameters p
TransformerAttend(node, neighbors, scores, p) ==
    TransformerSoftmax(node, neighbors, scores, p,
                       Exponentials(neighbors, Val(p.attention),
                                    MaxSeq(neighbors, Val(p.attention))))

\* The forEach body of one layer for one non-evidence node with neighbors.
\* The logits are updated whatever trainingEnabled holds: the code has no
\* test of it here.
TransformerNode(N, node, neighbors, scores) ==
    TransformerAttend(node, neighbors, scores,
        [ParamsOf(node) EXCEPT !.attention =
            Some(FillMissing(ParamsOf(node).attention, neighbors,
                             [nid \in Range(neighbors) |-> Similarity(node, N[nid])]))])

\* the loop state after a layer that updated the nodes of upd
TransformerNext(st, upd) ==
    [layer |-> st.layer + 1, maxDelta |-> MaxDiff(upd),
     nodes |-> MergeNodes(st.nodes, upd), scores |-> MergeScores(st.scores, upd)]

TransformerPass(E, adj, ev, st) ==
    TransformerNext(st, Force([id \in {n \in DOMAIN st.nodes :
                                         n \notin DOMAIN ev
                                         /\ Len(GetNeighbors(E, adj, n)) > 0} |->
                TransformerNode(st.nodes, st.nodes[id], GetNeighbors(E, adj, id),
                                st.scores)]))

RECURSIVE TransformerLoop(_, _, _, _)
TransformerLoop(E, adj, ev, st) ==
    IF st.layer < TransformerLayers
    THEN TransformerLoop(E, adj, ev, TransformerPass(E, adj, ev, st))
    ELSE st

\* the AlgorithmResult, and the node map left, for the state the loop ends in
TransformerResult(st) ==
    [scores |-> st.scores,
     reliability |-> Max2(TransformerMinReliability, Scale - 5 * st.maxDelta),
     nodes |-> st.nodes]

\* BayesianEngine.runTransformer(evidence)
RunTransformer(N, E, adj, ev) ==
    TransformerResult(TransformerLoop(E, adj, ev,
                                      [layer |-> 0, maxDelta |-> 0, nodes |-> N,
                                       scores |-> InitialScores(N, ev)]))


---------------------------------------------------------------------------
(* Math.random                                                             *)

\* Values Math.random() may return: the two ends and the middle of [0, 1).
RandomValues == <<0, 500000, 999999>>

\* A source of random numbers is a periodic sequence over RandomValues,
\* [base, step]; Random(rng, k) is what the k-th call of Math.random() of a
\* runner returns (k = 0, 1, ...).
Random(rng, k) == RandomValues[((rng.base + k * rng.step) % Len(RandomValues)) + 1]

\* The ids of the node map in iteration (insertion) order: nodes are
\* inserted in the order of IdOrder.
IdOrder ==
    <<"A", "B", "C", "D", "W01", "W02", "W03", "W04",
      "W05", "W06", "W07", "W08", "W09", "W10", "W11", "W12",
      "W13", "W14", "W15", "W16", "W17", "W18", "W19", "W20",
      "W21", "W22", "W23", "W24", "W25", "W26", "W27", "W28",
      "W29", "W30", "W31", "W32", "W33", "W34", "W35">>
NodeSeq(N) == SelectSeq(IdOrder, LAMBDA id : id \in DOMAIN N)
IndexOf(seq, x) == CHOOSE i \in DOMAIN seq : seq[i] = x

---------------------------------------------------------------------------
(* Algorithm 2: Monte Carlo Simulation                                     *)

MCSIterations == 300
MCSSteps == 5
MCSNoiseSpan == 400000
MCSOwnShare == 400000
MCSInputShare == 600000

\* prior + noise for the random number u, clamped
MCSNoisy(prior, u) ==
    Clamp01(prior + Mul(Mul(u - Half, MCSNoiseSpan), Scale - Abs(prior - Half)))

\* Initialization of trial i: prior plus noise, clamped; the nodes draw
\* their random numbers in the order `order`.
MCSInitialState(N, ev, rng, i, order) ==
    Force([id \in DOMAIN N |->
             MCSNoisy(IF id \in DOMAIN ev THEN ev[id] ELSE GetNodePrior(N[id]),
                      Random(rng, i * Len(order) + IndexOf(order, id) - 1))])

\* nextState of one propagation step before the copy
MCSCombined(N, E, ev, state) ==
    [id \in DOMAIN N |->
       IF id \in DOMAIN ev \/ Len(GetParents(E, id)) = 0 THEN state[id]
       ELSE Mul(state[id], MCSOwnShare)
            + Mul(MinOr(GetParents(E, id), state, 0), MCSInputShare)]

\* state.forEach((v, k) => nextState.set(k, v))
MCSCopyOver(state, nextState) ==
    [id \in DOMAIN nextState |->
       IF id \in DOMAIN state THEN state[id] ELSE nextState[id]]

\* One propagation step.  The code builds nextState from state, then copies
\* every entry of state over it and never assigns state: the step leaves
\* state as it was.
MCSPropagate(N, E, ev, state) ==
    [state |-> state,
     nextState |-> MCSCopyOver(state, MCSCombined(N, E, ev, state))].state

RECURSIVE MCSPropagation(_, _, _, _, _)
MCSPropagation(N, E, ev, state, step) ==
    IF step < MCSSteps
    THEN MCSPropagation(N, E, ev, MCSPropagate(N, E, ev, state), step + 1)
    ELSE state

\* the state trial i accumulates
MCSTrial(N, E, ev, rng, i, order) ==
    MCSPropagation(N, E, ev, MCSInitialState(N, ev, rng, i, order), 0)

RECURSIVE SumRange(_, _, _)
\* f[lo] + ... + f[hi] for lo <= hi
SumRange(f, lo, hi) ==
    IF lo = hi THEN f[lo]
    ELSE SumRange(f, lo, (lo + hi) \div 2) + SumRange(f, ((lo + hi) \div 2) + 1, hi)

\* the states the trials accumulate, by trial number
MCSTrials(N, E, ev, rng, order) ==
    Force([i \in 0..(MCSIterations - 1) |-> MCSTrial(N, E, ev, rng, i, order)])

\* sumScores and sumSqScores after the trials
MCSAccumulate(N, trials) ==
    [sum |-> Force([id \in DOMAIN N |->
                SumRange([i \in DOMAIN trials |-> trials[i][id]],
                         0, MCSIterations - 1)]),
     sumSq |-> Force([id \in DOMAIN N |->
                SumRange([i \in DOMAIN trials |-> Mul(trials[i][id], trials[i][id])],
                         0, MCSIterations - 1)])]

\* the variance of every node for the means `mean`
Variances(mean, acc, count) ==
    Force([id \in DOMAIN mean |->
             DivInt(acc.sumSq[id], count) - Mul(mean[id], mean[id])])

\* the AlgorithmResult for the means: reliability = 1 / (1 + avgVariance * gain)
\* over the variance of the nodes without an evidence entry
Reliability(ev, mean, acc, count, activeNodeCount, gain) ==
    [scores |-> mean,
     reliability |->
        Div(Scale,
            Scale + gain * (IF activeNodeCount > 0
                            THEN DivInt(SumOver(Variances(mean, acc, count),
                                                (DOMAIN mean) \ (DOMAIN ev)),
                                        activeNodeCount)
                            ELSE 0))]

\* mean and variance of every node, then the reliability
SampleStats(N, ev, acc, count, activeNodeCount, gain) ==
    Reliability(ev, Force([id \in DOMAIN N |-> DivInt(acc.sum[id], count)]), acc, count,
                activeNodeCount, gain)

\* BayesianEngine.runMCS(evidence)
RunMCS(N, E, ev, rng) ==
    SampleStats(N, ev, MCSAccumulate(N, MCSTrials(N, E, ev, rng, NodeSeq(N))),
                MCSIterations,
                Cardinality(DOMAIN N) - Cardinality(DOMAIN ev), 10)


---------------------------------------------------------------------------
(* Algorithm 3: MCMC (Metropolis)                                          *)

MCMCSamples == 400
MCMCBurnIn == 100
MCMCAdaptEvery == 50
MCMCInitialStep == 200000
MCMCShrink == 900000
MCMCGrow == 1100000
EnergyPriorWeight == 500000
EnergyDefault == 500000

\* the sum of scores.get(nid) ?? 0.5 over the neighbor list
InfluenceSum(neighbors, scores) ==
    [influence |-> SeqSum([k \in DOMAIN neighbors |->
                             GetOr(scores, neighbors[k], EnergyDefault)]),
     totalWeight |-> Len(neighbors) * Scale]

\* BayesianEngine.calculateInfluence(node, scores)
CalculateInfluence(E, adj, id, scores) ==
    InfluenceSum(GetParents(E, id) \o Children(adj, id), scores)

\* (val - expected)^2 for expected = (influence + prior * 0.5) / (totalWeight + 0.5)
Energy(val, inf, prior) ==
    Mul(val - Div(inf.influence + Mul(prior, EnergyPriorWeight),
                  inf.totalWeight + EnergyPriorWeight),
        val - Div(inf.influence + Mul(prior, EnergyPriorWeight),
                  inf.totalWeight + EnergyPriorWeight))

\* BayesianEngine.calculateLocalEnergy(node, val, state)
CalculateLocalEnergy(N, E, adj, id, val, state) ==
    Energy(val, CalculateInfluence(E, adj, id, state), GetNodePrior(N[id]))

\* the state after a proposal for node id that is accepted or not
MCMCMove(st, id, proposedVal, accepted) ==
    [st EXCEPT !.totalProposals = @ + 1,
               !.draws = @ + 2,
               !.acceptanceCount = IF accepted THEN @ + 1 ELSE @,
               !.currentState = IF accepted
                                THEN Force([k \in DOMAIN @ |->
                                        IF k = id THEN proposedVal ELSE @[k]])
                                ELSE @]

\* Math.random() < Math.exp(-deltaE * 10)
MCMCDecide(rng, st, id, proposedVal, deltaE) ==
    MCMCMove(st, id, proposedVal,
             deltaE <= 0 \/ Random(rng, st.draws + 1) < ExpNeg(10 * deltaE))

\* deltaE = proE - curE for the proposed value
MCMCWeigh(N, E, adj, rng, st, id, proposedVal) ==
    MCMCDecide(rng, st, id, proposedVal,
               CalculateLocalEnergy(N, E, adj, id, proposedVal, st.currentState)
               - CalculateLocalEnergy(N, E, adj, id, st.currentState[id],
                                      st.currentState))

\* One proposal for one candidate (the body of candidates.forEach).
MCMCPropose(N, E, adj, rng, st, id) ==
    MCMCWeigh(N, E, adj, rng, st, id,
              Clamp01(st.currentState[id]
                      + Mul(Random(rng, st.draws) - Half, st.stepSize)))

RECURSIVE MCMCSweep(_, _, _, _, _, _)
\* candidates.forEach, in node order
MCMCSweep(N, E, adj, rng, st, candidates) ==
    IF candidates = <<>> \/ DOMAIN st.currentState = {} THEN st
    ELSE MCMCSweep(N, E, adj, rng, MCMCPropose(N, E, adj, rng, st, Head(candidates)),
                   Tail(candidates))

\* the step size after the adaptation of iteration i
MCMCAdapt(st) ==
    IF st.i > 0 /\ st.i % MCMCAdaptEvery = 0
    THEN [st EXCEPT
            \* rate = acceptanceCount / totalProposals (NaN, so no change,
            \* when there is no candidate); rate < 0.2, rate > 0.3
            !.stepSize = IF st.totalProposals = 0 THEN @
                         ELSE IF 5 * st.acceptanceCount < st.totalProposals
                         THEN Mul(@, MCMCShrink)
                         ELSE IF 10 * st.acceptanceCount > 3 * st.totalProposals
                         THEN Mul(@, MCMCGrow)
                         ELSE @,
            !.acceptanceCount = 0,
            !.totalProposals = 0]
    ELSE st

\* if (i >= burnIn) accumulate; then i++
MCMCCollect(st) ==
    [st EXCEPT
       !.i = @ + 1,
       !.sumScores = IF st.i >= MCMCBurnIn
                     THEN Force([k \in DOMAIN @ |-> @[k] + st.currentState[k]])
                     ELSE @,
       !.sumSqScores = IF st.i >= MCMCBurnIn
                       THEN Force([k \in DOMAIN @ |->
                               @[k] + Mul(st.currentState[k], st.currentState[k])])
                       ELSE @]

\* One iteration of the sampling loop.
MCMCIteration(N, E, adj, ev, rng, st) ==
    MCMCCollect(MCMCSweep(N, E, adj, rng, MCMCAdapt(st),
                          SelectSeq(NodeSeq(N), LAMBDA id : id \notin DOMAIN ev)))

RECURSIVE MCMCRun(_, _, _, _, _, _, _)
\* the iterations from st.i up to (not including) iteration `until`: the
\* first half of them, then the rest
MCMCRun(N, E, adj, ev, rng, st, until) ==
    IF st.i >= until THEN st
    ELSE IF st.i + 1 = until THEN MCMCIteration(N, E, adj, ev, rng, st)
    ELSE MCMCRun(N, E, adj, ev, rng,
                 MCMCRun(N, E, adj, ev, rng, st, (st.i + until) \div 2), until)

\* for (i = 0; i < samples + burnIn; i++)
MCMCLoop(N, E, adj, ev, rng, st) ==
    MCMCRun(N, E, adj, ev, rng, st, MCMCSamples + MCMCBurnIn)

\* Math.min(1.0, reliability)
CapReliability(result) ==
    [scores |-> result.scores, reliability |-> Min2(Scale, result.reliability)]

\* the AlgorithmResult for the state the loop ends in
MCMCResult(N, ev, st) ==
    CapReliability(SampleStats(N, ev, [sum |-> st.sumScores, sumSq |-> st.sumSqScores],
                               MCMCSamples,
                               Cardinality((DOMAIN N) \ (DOMAIN ev)), 8))

\* the state before the first iteration
MCMCStart(scores, zero) ==
    [i |-> 0, stepSize |-> MCMCInitialStep, acceptanceCount |-> 0,
     totalProposals |-> 0, draws |-> 0, currentState |-> scores,
     sumScores |-> zero, sumSqScores |-> zero]

\* BayesianEngine.runMCMC(evidence)
RunMCMC(N, E, adj, ev, rng) ==
    MCMCResult(N, ev,
               MCMCLoop(N, E, adj, ev, rng,
                        MCMCStart(InitialScores(N, ev), Force([id \in DOMAIN N |-> 0]))))


---------------------------------------------------------------------------
(* The Consensus Fuser: BayesianEngine.analyze                             *)

BiasBN == 1500000
BiasMCMC == 1200000
BiasMCS == 1200000
BiasTransformer == 1100000
BiasDefault == 800000

AlgorithmIds == <<"BN", "MCS", "MCMC", "DT", "LR", "LogReg", "VI", "Transformer">>

\* the same bias for every algorithm
FlatBias(algorithmName) == BiasDefault

\* the switch of addToConsensus
BaseBias(algorithmName) ==
    CASE algorithmName = "BN" -> BiasBN
      [] algorithmName = "MCMC" -> BiasMCMC
      [] algorithmName = "MCS" -> BiasMCS
      [] algorithmName = "Transformer" -> BiasTransformer
      [] OTHER -> BiasDefault

\* Final Weight = Dynamic Reliability * Base Bias
Weight(result, algorithmName) == Mul(result.reliability, BaseBias(algorithmName))

\* The runners analyze calls, in the order it calls them.
Selected(algs) == SelectSeq(AlgorithmIds, LAMBDA a : Includes(algs, a))

\* addToConsensus for a runner that writes its scores back into
\* beliefs['working'] of the nodes
AddResultStoringBeliefs(acc, a, result) ==
    [results |-> acc.results @@ (a :> result),
     nodes |-> [id \in DOMAIN acc.nodes |->
                  [acc.nodes[id] EXCEPT !.working = Some(result.scores[id])]]]

\* addToConsensus(result, a) for a runner that leaves the nodes alone
AddResult(acc, a, result) ==
    [results |-> acc.results @@ (a :> result), nodes |-> acc.nodes]

\* addToConsensus(result, a) for a runner that updates modelParams in place
AddLearned(acc, a, result) ==
    [results |-> acc.results
                 @@ (a :> [scores |-> result.scores, reliability |-> result.reliability]),
     nodes |-> result.nodes]

\* if (algorithms.includes(a)) addToConsensus(this.run...(evidence), a)
RunOne(acc, E, adj, ev, a, training, rng) ==
    CASE a = "BN" -> AddResult(acc, a, RunBN(acc.nodes, E, adj, ev))
      [] a = "MCS" -> AddResult(acc, a, RunMCS(acc.nodes, E, ev, rng))
      [] a = "MCMC" -> AddResult(acc, a, RunMCMC(acc.nodes, E, adj, ev, rng))
      [] a = "DT" -> AddResult(acc, a, RunDT(acc.nodes, E, ev))
      [] a = "LR" ->
           AddLearned(acc, a, RunLinearRegression(acc.nodes, E, adj, ev, training))
      [] a = "LogReg" ->
           AddLearned(acc, a, RunLogisticRegression(acc.nodes, E, adj, ev, training))
      [] a = "VI" -> AddResult(acc, a, RunVI(acc.nodes, E, adj, ev))
      [] a = "Transformer" -> AddLearned(acc, a, RunTransformer(acc.nodes, E, adj, ev))

RECURSIVE RunInOrder(_, _, _, _, _, _, _)
\* the runners of `order`, one after the other: each starts when the
\* results so far, keyed by the ids of the runners before it, are in
RunInOrder(acc, E, adj, ev, order, training, rng) ==
    IF order = <<>> \/ ~(DOMAIN acc.results \subseteq Range(AlgorithmIds)) THEN acc
    ELSE RunInOrder(RunOne(acc, E, adj, ev, Head(order), training, rng),
                    E, adj, ev, Tail(order), training, rng)

\* The results of the selected runners, and the node map they leave.  LR,
\* LogReg and Transformer update modelParams in place, so each runner starts
\* from the nodes the ones before it left.
RunSelected(N, E, adj, ev, algs, training, rng) ==
    RunInOrder([results |-> <<>>, nodes |-> N], E, adj, ev, Selected(algs),
               training, rng)

RECURSIVE ConsensusQR(_, _, _, _)
\* <<quotient, sum of remainders>> of the sum over the selected runners of
\* score * weight, divided by totalWeight
ConsensusQR(order, results, id, totalWeight) ==
    IF order = <<>> THEN <<0, 0>>
    ELSE LET a == Head(order)
             qr == MulDivQR(results[a].scores[id], Weight(results[a], a), totalWeight)
             rest == ConsensusQR(Tail(order), results, id, totalWeight)
         IN <<qr[1] + rest[1], qr[2] + rest[2]>>

\* totalWeight after every addToConsensus
TotalWeight(order, results) ==
    SeqSum([k \in DOMAIN order |-> Weight(results[order[k]], order[k])])

\* val / totalWeight for one node, without the toFixed(4)
FuseUnrounded(order, results, id) ==
    LET totalWeight == TotalWeight(order, results)
        qr == ConsensusQR(order, results, id, totalWeight)
    IN qr[1] + (qr[2] \div totalWeight)

\* parseFloat((val / totalWeight).toFixed(4)) for one node
Fuse(order, results, id) ==
    LET totalWeight == TotalWeight(order, results)
        qr == ConsensusQR(order, results, id, totalWeight)
    IN ToFixed4(qr[1] + (qr[2] \div totalWeight))

\* analyze whose last branch returns finalScores in both cases: without the
\* fallback the map stays empty when no runner was added
FinalScoresWithoutFallback(N, E, adj, ev, order, results) ==
    IF TotalWeight(order, results) > 0
    THEN Force([id \in DOMAIN N |-> Fuse(order, results, id)])
    ELSE <<>>

\* the map analyze returns, given the results of the selected runners
FinalScores(N, E, adj, ev, order, results) ==
    IF TotalWeight(order, results) > 0
    THEN Force([id \in DOMAIN N |-> Fuse(order, results, id)])
    ELSE RunBN(N, E, adj, ev).scores

\* the graph clone() returned after the engine wrote modelParams: a node
\* object the two graphs share shows the write in both
SyncTwin(t, N) ==
    IF IsDef(t)
    THEN Some([Val(t) EXCEPT !.nodes = [id \in DOMAIN Val(t).nodes |->
                 IF id \in Val(t).shared /\ id \in DOMAIN N THEN N[id] ELSE Val(t).nodes[id]]])
    ELSE t

\* the engine and the history after an analyze call whose runners gave `out`
Finish(ev, algs, training, out) ==
    /\ trainingEnabled' = training
    /\ nodes' = out.nodes
    /\ runs' = out.results
    /\ finalScores' = FinalScores(nodes, edges, adjacency, ev, Selected(algs),
                                  out.results)
    /\ evidence' = ev
    /\ algorithms' = algs
    /\ preNodes' = nodes
    /\ calls' = calls + 1
    /\ UNCHANGED <<edges, adjacency>>
    /\ twin' = SyncTwin(twin, out.nodes)
    /\ lastOp' = [lastOp EXCEPT !.op = "analyze", !.side = "this"]
    /\ UNCHANGED <<sensitivity, isTraining>>
    \* history: prevCall is one of the calls made before the last one
    /\ prevCall' \in {prevCall} \cup
                     (IF calls = 0 THEN {}
                      ELSE {Some([evidence |-> evidence, algorithms |-> algorithms,
                                  trainingEnabled |-> trainingEnabled,
                                  preNodes |-> preNodes, runs |-> runs,
                                  finalScores |-> finalScores])})

\* analyze(evidence, algorithms, trainingEnabled); rng is the source of the
\* random numbers MCS and MCMC draw.
Analyze(ev, algs, training, rng) ==
    Finish(ev, algs, training,
           RunSelected(nodes, edges, adjacency, ev, algs, training, rng))


---------------------------------------------------------------------------
(* runSensitivityAnalysis                                                  *)

SensitivityStep == 200000
SensitivityMin == 5000
PerturbationMin == 1000

\* runAlgo with DT as the default: BN only when the caller names it
RunAlgoDefaultDT(N, E, adj, ev, algorithm) ==
    IF algorithm = "BN" THEN [scores |-> RunBN(N, E, adj, ev).scores, nodes |-> N, runner |-> "BN"]
    ELSE [scores |-> RunDT(N, E, ev).scores, nodes |-> N, runner |-> "DT"]

\* runAlgo(ev): the scores, the graph nodes after the run and the runner used
RunAlgo(N, E, adj, ev, algorithm) ==
    IF algorithm = "DT" THEN [scores |-> RunDT(N, E, ev).scores, nodes |-> N, runner |-> "DT"]
    ELSE [scores |-> RunBN(N, E, adj, ev).scores, nodes |-> N, runner |-> "BN"]

\* one rerun, as the properties see it: the runner, the graph nodes and the
\* evidence it was given
Rerun(run, N, ev) == [runner |-> run.runner, nodes |-> N, evidence |-> ev]

\* sensitivityMap.set(key, ...) without the test against 0.005
RecordAlways(map, key, value) == (key :> ToFixed4(value)) @@ map

\* sensitivityMap.set(key, parseFloat(sensitivity.toFixed(4))) if the
\* sensitivity exceeds 0.005
Record(map, key, value) ==
    IF value > SensitivityMin THEN (key :> ToFixed4(value)) @@ map ELSE map

\* attrData.confidence = value
SetConfidence(N, id, attrKey, value) ==
    [N EXCEPT ![id] = [@ EXCEPT !.customAttributes = (attrKey :> value) @@ @]]

\* Scenario A without the line that puts the original confidence back
AttributeRecordNoRestore(st, targetId, ev, id, attrKey, originalConf, designBaselineTarget, perturbed, run) ==
    [nodes |-> run.nodes,
     evidence |-> st.evidence,
     map |-> Record(st.map, <<id, attrKey>>,
                    Abs(Div(designBaselineTarget - run.scores[targetId], SensitivityStep))),
     reruns |-> st.reruns \cup {Rerun(run, perturbed, ev)}]

\* Scenario A for one attribute, after the rerun on the perturbed nodes:
\* the confidence is put back and the sensitivity recorded
AttributeRecord(st, targetId, ev, id, attrKey, originalConf, designBaselineTarget, perturbed, run) ==
    [nodes |-> SetConfidence(run.nodes, id, attrKey, originalConf),
     evidence |-> st.evidence,
     map |-> Record(st.map, <<id, attrKey>>,
                    Abs(Div(designBaselineTarget - run.scores[targetId], SensitivityStep))),
     reruns |-> st.reruns \cup {Rerun(run, perturbed, ev)}]

\* the rerun of Scenario A on nodes with one confidence perturbed
AttributeRerun(st, E, adj, targetId, ev, algorithm, id, attrKey, originalConf, designBaselineTarget, perturbed) ==
    AttributeRecord(st, targetId, ev, id, attrKey, originalConf, designBaselineTarget,
                    perturbed, RunAlgo(perturbed, E, adj, ev, algorithm))

\* Scenario A for one attribute: confidence lowered by 0.2, not below 0
AttributeStep(st, E, adj, targetId, ev, algorithm, id, attrKey, designBaselineTarget) ==
    AttributeRerun(st, E, adj, targetId, ev, algorithm, id, attrKey,
                   st.nodes[id].customAttributes[attrKey], designBaselineTarget,
                   SetConfidence(st.nodes, id, attrKey,
                                 Max2(0, st.nodes[id].customAttributes[attrKey]
                                         - SensitivityStep)))

RECURSIVE AttributeLoop(_, _, _, _, _, _, _, _, _)
\* Object.entries(node.customAttributes).forEach over the keys left
AttributeLoop(st, E, adj, targetId, ev, algorithm, id, keys, designBaselineTarget) ==
    IF keys = {} \/ id \notin DOMAIN st.nodes THEN st
    ELSE AttributeLoop(AttributeStep(st, E, adj, targetId, ev, algorithm, id,
                                     CHOOSE k \in keys : TRUE, designBaselineTarget),
                       E, adj, targetId, ev, algorithm, id,
                       keys \ {CHOOSE k \in keys : TRUE}, designBaselineTarget)

\* the belief put back after Scenario A, if the node had one
RestoreBelief(st, id, realBelief) ==
    [st EXCEPT !.nodes = IF IsDef(realBelief)
                         THEN [@ EXCEPT ![id] = [@ EXCEPT !.working = realBelief]]
                         ELSE @]

\* Scenario A after the design baseline run
AttributesAfterBaseline(st, E, adj, targetId, ev, algorithm, id, realBelief, cleared, run) ==
    RestoreBelief(
        AttributeLoop([st EXCEPT !.nodes = run.nodes,
                                 !.reruns = @ \cup {Rerun(run, cleared, ev)}],
                      E, adj, targetId, ev, algorithm, id,
                      DOMAIN st.nodes[id].customAttributes, run.scores[targetId]),
        id, realBelief)

\* Scenario A: the stored belief is taken out, the design baseline computed,
\* every attribute perturbed in turn
AttributesWithout(st, E, adj, targetId, ev, algorithm, id, cleared) ==
    AttributesAfterBaseline(st, E, adj, targetId, ev, algorithm, id,
                            st.nodes[id].working, cleared,
                            RunAlgo(cleared, E, adj, ev, algorithm))

\* Scenario A of one node, for a node that has customAttributes
Attributes(st, E, adj, targetId, ev, algorithm, id) ==
    IF DOMAIN st.nodes[id].customAttributes = {} THEN st
    ELSE AttributesWithout(st, E, adj, targetId, ev, algorithm, id,
                           [st.nodes EXCEPT ![id] = [@ EXCEPT !.working = Undefined]])

\* const perturbedEvidence = { ...evidence }; perturbedEvidence[node.id] =
\* Math.max(0, currentVal - 0.2): the caller's object and the copy
Perturbed(ev, id, currentVal) ==
    [caller |-> ev,
     perturbed |-> (id :> Max2(0, currentVal - SensitivityStep)) @@ ev]

\* Scenario B after the rerun: recorded if the actual perturbation exceeds
\* 0.001 and the sensitivity 0.005
StructuralRecord(st, targetId, id, globalBaselineTarget, actualPerturbation, p, run) ==
    [nodes |-> run.nodes,
     evidence |-> p.caller,
     map |-> IF actualPerturbation > PerturbationMin
             THEN Record(st.map, <<id>>,
                         Abs(Div(globalBaselineTarget - run.scores[targetId],
                                 actualPerturbation)))
             ELSE st.map,
     reruns |-> st.reruns \cup {Rerun(run, st.nodes, p.perturbed)}]

\* Scenario B for the perturbed evidence p
StructuralRerun(st, E, adj, targetId, algorithm, id, globalBaselineTarget, currentVal, p) ==
    StructuralRecord(st, targetId, id, globalBaselineTarget, currentVal - p.perturbed[id],
                     p, RunAlgo(st.nodes, E, adj, p.perturbed, algorithm))

\* Scenario B of one node of the graph
Structural(st, E, adj, targetId, algorithm, id, globalBaselineTarget, currentVal) ==
    IF id \notin DOMAIN st.nodes THEN st
    ELSE
    StructuralRerun(st, E, adj, targetId, algorithm, id, globalBaselineTarget, currentVal,
                    Perturbed(st.evidence, id, currentVal))

\* evidence[node.id] ?? this.getNodePrior(node)
CurrentVal(N, ev, id) == IF id \in DOMAIN ev THEN ev[id] ELSE GetNodePrior(N[id])

\* the body of nodes.forEach for one node
SensitivityNode(st, E, adj, targetId, algorithm, id, globalBaselineTarget) ==
    IF id = targetId THEN st
    ELSE Structural(Attributes(st, E, adj, targetId, st.evidence, algorithm, id),
                    E, adj, targetId, algorithm, id, globalBaselineTarget,
                    CurrentVal(st.nodes, st.evidence, id))

RECURSIVE SensitivityLoop(_, _, _, _, _, _, _)
\* nodes.forEach over the nodes left in order
SensitivityLoop(st, E, adj, targetId, algorithm, order, globalBaselineTarget) ==
    IF order = <<>> \/ DOMAIN st.nodes = {} THEN st
    ELSE SensitivityLoop(SensitivityNode(st, E, adj, targetId, algorithm, Head(order),
                                         globalBaselineTarget),
                         E, adj, targetId, algorithm, Tail(order), globalBaselineTarget)

\* runSensitivityAnalysis after the global baseline run
SensitivityFrom(N, E, adj, targetId, ev, algorithm, run) ==
    IF targetId \notin DOMAIN run.scores
    THEN [nodes |-> run.nodes, evidence |-> ev, map |-> <<>>,
          reruns |-> {Rerun(run, N, ev)}]
    ELSE SensitivityLoop([nodes |-> run.nodes, evidence |-> ev, map |-> <<>>,
                          reruns |-> {Rerun(run, N, ev)}],
                         E, adj, targetId, algorithm, NodeSeq(N), run.scores[targetId])

\* runSensitivityAnalysis(targetId, evidence, algorithm): the map returned,
\* the graph nodes and the caller's evidence after the call, and the reruns
RunSensitivityAnalysis(N, E, adj, targetId, ev, algorithm) ==
    SensitivityFrom(N, E, adj, targetId, ev, algorithm, RunAlgo(N, E, adj, ev, algorithm))

\* the number of runSensitivityAnalysis calls made so far
SensitivityCalls == IF IsDef(sensitivity) THEN Val(sensitivity).count ELSE 0

\* the engine after a runSensitivityAnalysis call that gave `out`
FinishSensitivity(targetId, ev, algorithm, out) ==
    /\ nodes' = out.nodes
    /\ sensitivity' = Some([targetId |-> targetId, evidence |-> ev, algorithm |-> algorithm,
                            map |-> out.map, evidenceAfter |-> out.evidence,
                            reruns |-> out.reruns, count |-> SensitivityCalls + 1])
    /\ preNodes' = nodes
    /\ twin' = SyncTwin(twin, out.nodes)
    /\ lastOp' = [lastOp EXCEPT !.op = "sensitivity", !.side = "this"]
    /\ UNCHANGED <<edges, adjacency, trainingEnabled, evidence, algorithms, runs,
                   finalScores, prevCall, calls, isTraining>>

\* engine.runSensitivityAnalysis(targetId, evidence, algorithm)
SensitivityCall(targetId, ev, algorithm) ==
    FinishSensitivity(targetId, ev, algorithm,
                      RunSensitivityAnalysis(nodes, edges, adjacency, targetId, ev, algorithm))


---------------------------------------------------------------------------
(* Operations on the graph of the engine ("this") and on the graph a      *)
(* clone() call gave ("twin"), as App.tsx makes them                       *)

EngineVars == <<trainingEnabled, evidence, algorithms, runs, finalScores, preNodes,
                prevCall, calls, sensitivity, isTraining>>

\* the graph of one side
GraphOf(side) ==
    IF side = "this" THEN Graph(nodes, edges, adjacency)
    ELSE Graph(Val(twin).nodes, Val(twin).edges, Val(twin).adjacency)

\* the ids whose node object the two graphs share
Shared == IF IsDef(twin) THEN Val(twin).shared ELSE {}

\* the state after an operation made G the graph of `side`; ids in `lost`
\* no longer name a common node object
Install(side, G, lost, op) ==
    /\ lastOp' = [op |-> op, side |-> side, n |-> lastOp.n + 1]
    /\ IF side = "this"
       THEN /\ nodes' = G.nodes
            /\ edges' = G.edges
            /\ adjacency' = G.adjacency
            /\ twin' = IF IsDef(twin)
                       THEN Some([Val(twin) EXCEPT !.shared = @ \ lost])
                       ELSE twin
       ELSE /\ twin' = Some([nodes |-> G.nodes, edges |-> G.edges,
                             adjacency |-> G.adjacency, shared |-> Shared \ lost])
            /\ UNCHANGED <<nodes, edges, adjacency>>
    /\ UNCHANGED EngineVars

\* graph.addNode(node) with a new node object
AddNodeCall(side, node) ==
    /\ side = "twin" => IsDef(twin)
    /\ Install(side, AddNode(GraphOf(side), node), {node.id}, "addNode")

\* graph.removeNode(nodeId)
RemoveNodeCall(side, nodeId) ==
    /\ side = "twin" => IsDef(twin)
    /\ Install(side, RemoveNode(GraphOf(side), nodeId), {nodeId}, "removeNode")

\* graph.addEdge(edge)
AddEdgeCall(side, edge) ==
    /\ side = "twin" => IsDef(twin)
    /\ Install(side, AddEdge(GraphOf(side), edge), {}, "addEdge")

\* graph.removeEdge(edgeId)
RemoveEdgeCall(side, edgeId) ==
    /\ side = "twin" => IsDef(twin)
    /\ Install(side, RemoveEdge(GraphOf(side), edgeId), {}, "removeEdge")

\* graph.clone(): the twin is the graph returned
CloneCall ==
    /\ twin' = Some(Clone(Graph(nodes, edges, adjacency)))
    /\ lastOp' = [op |-> "clone", side |-> "twin", n |-> lastOp.n + 1]
    /\ UNCHANGED <<nodes, edges, adjacency>>
    /\ UNCHANGED EngineVars

\* node.tags[key] = text
SetTag(tags, key, text) ==
    IF \E i \in DOMAIN tags : tags[i].key = key
    THEN [i \in DOMAIN tags |->
            IF tags[i].key = key
            THEN [key |-> key, kind |-> "text", num |-> 0, nan |-> TRUE, text |-> text]
            ELSE tags[i]]
    ELSE Append(tags, [key |-> key, kind |-> "text", num |-> 0, nan |-> TRUE, text |-> text])

\* a write to the contents of a node object: w.field is beliefs (w.value
\* an optional number), customAttributes or tags
Written(node, w) ==
    CASE w.field = "beliefs" -> [node EXCEPT !.working = w.value]
      [] w.field = "customAttributes" ->
            [node EXCEPT !.customAttributes = (w.key :> w.value) @@ @]
      [] w.field = "tags" -> [node EXCEPT !.tags = SetTag(@, w.key, w.value)]

\* the nodes of a graph that holds the written node object under id
WriteIn(N, id, w) == [N EXCEPT ![id] = Written(N[id], w)]

\* graph.nodes.get(nodeId) written in place: the write shows in every graph
\* that holds the node object
WriteCall(side, nodeId, w) ==
    /\ side = "twin" => IsDef(twin)
    /\ nodeId \in DOMAIN GraphOf(side).nodes
    /\ nodes' = IF side = "this" \/ nodeId \in Shared
                THEN WriteIn(nodes, nodeId, w) ELSE nodes
    /\ twin' = IF IsDef(twin) /\ (side = "twin" \/ nodeId \in Shared)
               THEN Some([Val(twin) EXCEPT !.nodes = WriteIn(@, nodeId, w)])
               ELSE twin
    /\ lastOp' = [op |-> "write", side |-> side, n |-> lastOp.n + 1]
    /\ UNCHANGED <<edges, adjacency>>
    /\ UNCHANGED EngineVars


---------------------------------------------------------------------------
(* Graphs the engine is built on                                           *)

\* A GraphNode with the fields the engine reads; working is
\* beliefs['working'].
GraphNode(id, type, context, working, customAttributes, tags) ==
    [id |-> id, type |-> type, context |-> context, working |-> working,
     customAttributes |-> customAttributes, tags |-> tags, modelParams |-> Undefined]

GraphEdge(id, source, target) == [id |-> id, source |-> source, target |-> target]

\* new KnowledgeGraph(nodes, edges)
KnowledgeGraph(nodeSeq, E) ==
    LET N == Force([id \in {nodeSeq[i].id : i \in DOMAIN nodeSeq} |->
                      nodeSeq[CHOOSE i \in DOMAIN nodeSeq : nodeSeq[i].id = id]])
    IN [nodes |-> N, edges |-> E, adjacency |-> RebuildAdjacency(N, E)]

PlainNode(id) == GraphNode(id, "part", "design", Undefined, <<>>, <<>>)

\* A -> B -> C, nothing but defaults
Chain ==
    KnowledgeGraph(<<PlainNode("A"), PlainNode("B"), PlainNode("C")>>,
                   <<GraphEdge("e1", "A", "B"), GraphEdge("e2", "B", "C")>>)

\* A <-> B and an isolated C; priors from a stored belief, a tag and an
\* attribute
Ring ==
    KnowledgeGraph(
        <<GraphNode("A", "part", "design", Some(300000), <<>>, <<>>),
          GraphNode("B", "process", "manufacturing", Undefined, <<>>,
                    <<[key |-> "status", kind |-> "text", num |-> 0, nan |-> TRUE,
                       text |-> "low"]>>),
          GraphNode("C", "part", "support", Undefined, "precision" :> 123449, <<>>)>>,
        <<GraphEdge("e1", "A", "B"), GraphEdge("e2", "B", "A")>>)

\* A and B (twice) feed C, C feeds itself, D is isolated
Fan ==
    KnowledgeGraph(
        <<GraphNode("A", "part", "design", Some(800000), <<>>, <<>>),
          GraphNode("B", "process", "manufacturing", Undefined,
                    ("tolerance" :> 600000) @@ ("finish" :> 900000), <<>>),
          GraphNode("C", "group", "design", Undefined, <<>>, <<>>),
          PlainNode("D")>>,
        <<GraphEdge("e1", "A", "C"), GraphEdge("e2", "B", "C"),
          GraphEdge("e3", "B", "C"), GraphEdge("e4", "C", "C")>>)

WideIds ==
    {"W01", "W02", "W03", "W04", "W05", "W06", "W07", "W08",
     "W09", "W10", "W11", "W12", "W13", "W14", "W15", "W16",
     "W17", "W18", "W19", "W20", "W21", "W22", "W23", "W24",
     "W25", "W26", "W27", "W28", "W29", "W30", "W31", "W32",
     "W33", "W34", "W35"}

\* many unconnected nodes, each with a stored belief of 0.5
Wide ==
    [nodes |-> Force([id \in WideIds |->
                        GraphNode(id, "part", "design", Some(Half), <<>>, <<>>)]),
     edges |-> <<>>,
     adjacency |-> Force([id \in WideIds |-> <<>>])]

\* ids of nodes that are not (or no longer) in the graph
StaleIds ==
    <<"X01", "X02", "X03", "X04", "X05", "X06", "X07", "X08",
      "X09", "X10", "X11", "X12", "X13", "X14", "X15", "X16",
      "X17", "X18", "X19", "X20", "X21", "X22", "X23", "X24",
      "X25", "X26", "X27", "X28", "X29", "X30", "X31", "X32",
      "X33", "X34">>

NoRng == [base |-> 0, step |-> 0]

\* the graph G after one analyze call with training on
Trained(G, ev, algs) ==
    [G EXCEPT !.nodes = RunSelected(G.nodes, G.edges, G.adjacency, ev, algs,
                                    TRUE, NoRng).nodes]

\* the engine right after new BayesianEngine(graph)
Start(G) ==
    /\ nodes = G.nodes
    /\ edges = G.edges
    /\ adjacency = G.adjacency
    /\ trainingEnabled = TRUE
    /\ evidence = <<>>
    /\ algorithms = <<>>
    /\ runs = <<>>
    /\ finalScores = <<>>
    /\ preNodes = G.nodes
    /\ prevCall = Undefined
    /\ calls = 0
    /\ twin = Undefined
    /\ lastOp = [op |-> "new", side |-> "this", n |-> 0]
    /\ sensitivity = Undefined
    /\ isTraining = TRUE


---------------------------------------------------------------------------
(* Specifications.  An analyze call takes its arguments from a family of   *)
(* calls, a set of records [ev, algs, training, rng].                      *)

NoEvidence == <<>>
EvidenceBC == ("B" :> 500000) @@ ("C" :> 900000)

AllStructural == <<"BN", "DT", "LR", "LogReg", "VI", "Transformer">>

\* the call c made on the engine
AnalyzeCall(c) == Analyze(c.ev, c.algs, c.training, c.rng)

\* --- Spec: one call, any algorithm set, on fresh and on trained graphs ----

MaxCalls == 1

EvidenceMaps ==
    {NoEvidence, "A" :> 0, "A" :> 318600, "A" :> Scale, EvidenceBC,
     ("A" :> 300000) @@ ("Z" :> 700000)}

StructuralSets ==
    {<<"BN">>, <<"DT">>, <<"LR">>, <<"LogReg">>, <<"VI">>, <<"Transformer">>,
     AllStructural, <<"LR", "BN">>, <<>>, <<"XGBoost">>}

Rngs == {[base |-> 0, step |-> 1], [base |-> 2, step |-> 2], NoRng}

Calls ==
    [ev : EvidenceMaps, algs : StructuralSets, training : BOOLEAN, rng : {NoRng}]
    \cup [ev : {NoEvidence, "A" :> 318600}, algs : {<<"MCS">>},
          training : {TRUE}, rng : Rngs]
    \cup [ev : {EvidenceBC}, algs : {<<"MCMC">>, <<"MCS", "LogReg", "MCMC">>, AlgorithmIds},
          training : {TRUE}, rng : {[base |-> 0, step |-> 1]}]

Scenarios == {Chain, Ring, Fan, Trained(Chain, "A" :> 300000, AllStructural)}

Init == \E G \in Scenarios : Start(G)

Next == \E c \in Calls : calls < MaxCalls /\ AnalyzeCall(c)

Spec == Init /\ [][Next]_vars

\* --- SpecTrain: repeated calls of the learning runners, training on or off

MaxTrainCalls == 2

TrainCalls ==
    [ev : {NoEvidence, "A" :> 300000, EvidenceBC},
     algs : {<<"LR">>, <<"LogReg">>, <<"Transformer">>, <<"LR", "LogReg">>},
     training : BOOLEAN, rng : {NoRng}]

InitTrain == \E G \in {Chain, Ring, Fan} : Start(G)

NextTrain == \E c \in TrainCalls : calls < MaxTrainCalls /\ AnalyzeCall(c)

SpecTrain == InitTrain /\ [][NextTrain]_vars

\* --- SpecRepeat: the same call made again, with other calls in between ---

MaxRepeatCalls == 3

RepeatCalls ==
    [ev : {NoEvidence, "A" :> 300000, "B" :> 500000},
     algs : {<<"BN", "DT", "VI">>, <<"VI">>, <<"Transformer">>, <<"LR", "LogReg">>},
     training : {TRUE}, rng : {NoRng}]

InitRepeat == \E G \in {Chain, Ring, Trained(Chain, NoEvidence, <<"Transformer">>)} : Start(G)

NextRepeat == \E c \in RepeatCalls : calls < MaxRepeatCalls /\ AnalyzeCall(c)

SpecRepeat == InitRepeat /\ [][NextRepeat]_vars

\* --- SpecChain: BN alone on A -> B -> C, evidence on A only ---------------

MaxChainCalls == 2

ChainEvidenceValues ==
    {0, 100000, 250000, 318600, 318700, 400000, 500000, 600000, 750000, 900000,
     950000, Scale}

ChainCalls ==
    [ev : {"A" :> a : a \in ChainEvidenceValues}, algs : {<<"BN">>},
     training : {TRUE}, rng : {NoRng}]

InitChain == Start(Chain)

NextChain == \E c \in ChainCalls : calls < MaxChainCalls /\ AnalyzeCall(c)

SpecChain == InitChain /\ [][NextChain]_vars

\* --- SpecWide: a graph of many nodes, evidence for ids it does not hold ---

MaxWideCalls == 1

\* an evidence map for k ids the graph does not hold
StaleEvidence(k, value) == Force([id \in {StaleIds[i] : i \in 1..k} |-> value])

WideEvidenceMaps ==
    {NoEvidence, "W01" :> 200000, ("W01" :> 200000) @@ ("W35" :> 900000),
     StaleEvidence(34, Half), StaleEvidence(34, 0), StaleEvidence(20, Half),
     StaleEvidence(1, Half)}

WideCalls ==
    [ev : WideEvidenceMaps, algs : StructuralSets \ {AllStructural, <<"LR", "BN">>},
     training : BOOLEAN, rng : {NoRng}]
    \cup [ev : {NoEvidence, StaleEvidence(34, Half), StaleEvidence(20, Half)},
          algs : {<<"MCS">>}, training : {TRUE},
          rng : {[base |-> 0, step |-> 1], [base |-> 2, step |-> 2]}]

InitWide == Start(Wide)

NextWide == \E c \in WideCalls : calls < MaxWideCalls /\ AnalyzeCall(c)

SpecWide == InitWide /\ [][NextWide]_vars


\* --- SpecStale: calls that differ in evidence for ids the graph lacks ----

MaxStaleCalls == 2

\* evidence for A, alone and with entries for ids that are not nodes
StaleEvidenceMaps ==
    {NoEvidence, "Z" :> 700000, "A" :> 300000,
     ("A" :> 300000) @@ ("Z" :> 700000),
     ("A" :> 300000) @@ ("Y" :> 0) @@ ("Z" :> 700000)}

StaleCalls ==
    [ev : StaleEvidenceMaps,
     algs : {<<"MCS">>, <<"BN", "MCS">>, <<"BN", "DT", "VI">>},
     training : {TRUE}, rng : {[base |-> 0, step |-> 1]}]

InitStale == \E G \in {Chain, Fan} : Start(G)

NextStale == \E c \in StaleCalls : calls < MaxStaleCalls /\ AnalyzeCall(c)

SpecStale == InitStale /\ [][NextStale]_vars


\* --- SpecGraph: mutations of a graph and of its clone ---------------------

MaxGraphOps == 3

MaxGraphCalls == 1

Sides == {"this", "twin"}

\* nodes an addNode call may bring: a new id, and new objects for ids the
\* graphs may hold
NewNodes ==
    {PlainNode("Q"), PlainNode("A"),
     GraphNode("B", "process", "support", Some(400000), "wear" :> 700000, <<>>)}

\* edges an addEdge call may bring: a parallel edge, a loop, and edges to
\* and from an id that may not be a node
NewEdges ==
    {GraphEdge("n1", "A", "B"), GraphEdge("n2", "B", "B"),
     GraphEdge("n3", "A", "Q"), GraphEdge("n4", "Q", "C")}

Writes ==
    {[field |-> "beliefs", key |-> "working", value |-> Some(100000)],
     [field |-> "beliefs", key |-> "working", value |-> Undefined],
     [field |-> "customAttributes", key |-> "wear", value |-> 100000],
     [field |-> "tags", key |-> "status", value |-> "critical failure"]}

\* every source and target is a node: the graphs the engine is run on
EdgesJoinNodes ==
    \A i \in DOMAIN edges : edges[i].source \in DOMAIN nodes /\ edges[i].target \in DOMAIN nodes

GraphCalls ==
    [ev : {"A" :> 300000}, algs : {<<"LR", "Transformer">>}, training : {TRUE},
     rng : {NoRng}]

InitGraph == Start(Chain)

GraphOp ==
    \E side \in Sides :
        \/ \E node \in NewNodes : AddNodeCall(side, node)
        \/ \E nodeId \in {"A", "B", "Q"} : RemoveNodeCall(side, nodeId)
        \/ \E edge \in NewEdges : AddEdgeCall(side, edge)
        \/ \E edgeId \in {"e1", "n1", "n3"} : RemoveEdgeCall(side, edgeId)
        \/ \E nodeId \in {"A", "B"}, w \in Writes : WriteCall(side, nodeId, w)

NextGraph ==
    \/ lastOp.n < MaxGraphOps /\ GraphOp
    \/ lastOp.n < MaxGraphOps /\ CloneCall
    \/ \E c \in GraphCalls : calls < MaxGraphCalls /\ EdgesJoinNodes /\ AnalyzeCall(c)

SpecGraph == InitGraph /\ [][NextGraph]_vars


\* --- SpecSens: runSensitivityAnalysis calls ------------------------------

MaxSensCalls == 1

\* A (two attributes, one below 0.2, and a stored belief) and C feed B,
\* whose prior is a stored belief just above 0.1
Probe ==
    KnowledgeGraph(
        <<GraphNode("A", "part", "design", Some(500000),
                    ("finish" :> 100000) @@ ("wear" :> 900000), <<>>),
          GraphNode("B", "part", "design", Some(101004), <<>>, <<>>),
          PlainNode("C")>>,
        <<GraphEdge("e1", "A", "B"), GraphEdge("e2", "C", "B")>>)

SensEvidenceMaps ==
    {NoEvidence, "A" :> 300000, "A" :> 100000, "D" :> 500,
     ("B" :> 600000) @@ ("Z" :> 700000)}

SensCalls ==
    [targetId : {"A", "B", "C", "Z"}, ev : SensEvidenceMaps,
     algorithm : {"BN", "DT", "MCS", "LR", "XGBoost"}]

InitSens == \E G \in {Probe, Fan, Trained(Fan, NoEvidence, <<"LR">>)} : Start(G)

NextSens ==
    \E c \in SensCalls :
        SensitivityCalls < MaxSensCalls /\ SensitivityCall(c.targetId, c.ev, c.algorithm)

SpecSens == InitSens /\ [][NextSens]_vars


\* --- SpecPrior: the prior of one node, whatever its tags hold -------------

MaxPriorCalls == 1

\* a tag whose text ends in '%': parseFloat reads num, or nothing
PercentTag(key, num, nan) == [key |-> key, kind |-> "percent", num |-> num, nan |-> nan, text |-> ""]

\* a tag whose text parseFloat reads as num
NumberTag(key, num) == [key |-> key, kind |-> "number", num |-> num, nan |-> FALSE, text |-> ""]

\* any other tag
TextTag(key, text) == [key |-> key, kind |-> "text", num |-> 0, nan |-> TRUE, text |-> text]

\* "50%", "150%", "n/a%", "0.7", "-5", "45.0", qualitative levels under
\* keys that count and under one that does not, and free text
TagValues ==
    {PercentTag("yield", 50 * Scale, FALSE), PercentTag("load", 150 * Scale, FALSE),
     PercentTag("yield", 0, TRUE), NumberTag("score", 700000), NumberTag("offset", -5 * Scale),
     NumberTag("progress", 45 * Scale), TextTag("status", "high"), TextTag("quality", "fair"),
     TextTag("health", "bad"), TextTag("material", "low"), TextTag("status", "critical failure")}

\* the tags of a node: none, one or two
TagLists == {<<>>} \cup {<<t>> : t \in TagValues} \cup {<<t, u>> : t, u \in TagValues}

\* nodes whose beliefs and attribute confidences lie in [0,1]
TaggedNodes ==
    {GraphNode("A", "part", "design", working, customAttributes, tags) :
        working \in {Undefined, Some(0), Some(Scale)},
        customAttributes \in {<<>>, "wear" :> 0},
        tags \in TagLists}

PriorCalls == [ev : {NoEvidence}, algs : {<<"DT">>}, training : {TRUE}, rng : {NoRng}]

InitPrior == \E node \in TaggedNodes : Start(KnowledgeGraph(<<node>>, <<>>))

NextPrior == \E c \in PriorCalls : calls < MaxPriorCalls /\ AnalyzeCall(c)

SpecPrior == InitPrior /\ [][NextPrior]_vars


\* --- SpecBelief: stored beliefs rewritten between analyze calls -----------

MaxBeliefOps == 1

MaxBeliefCalls == 2

\* A: attributes, a tag and a belief; B: a tag that yields a factor and a
\* belief; C: a tag that yields none and a belief; D: nothing.  A, B and D
\* feed C
Layered ==
    KnowledgeGraph(
        <<GraphNode("A", "part", "design", Some(200000), "wear" :> 700000,
                    <<[key |-> "status", kind |-> "text", num |-> 0, nan |-> TRUE,
                       text |-> "low"]>>),
          GraphNode("B", "process", "design", Some(300000), <<>>,
                    <<[key |-> "yield", kind |-> "percent", num |-> 80 * Scale,
                       nan |-> FALSE, text |-> ""]>>),
          GraphNode("C", "part", "support", Some(400000), <<>>,
                    <<[key |-> "material", kind |-> "text", num |-> 0, nan |-> TRUE,
                       text |-> "steel"]>>),
          PlainNode("D")>>,
        <<GraphEdge("e1", "A", "C"), GraphEdge("e2", "B", "C"),
          GraphEdge("e3", "D", "C")>>)

BeliefWrites ==
    {[field |-> "beliefs", key |-> "working", value |-> v] :
        v \in {Undefined, Some(100000)}}

BeliefCalls ==
    [ev : {NoEvidence}, algs : {<<"DT">>, <<"BN", "DT", "VI">>, <<"MCS">>},
     training : {TRUE}, rng : {[base |-> 0, step |-> 1]}]
    \cup [ev : {"D" :> 500000}, algs : {<<"BN">>}, training : {TRUE}, rng : {NoRng}]
    \cup [ev : {NoEvidence}, algs : {<<"DT", "LR">>}, training : {FALSE}, rng : {NoRng}]

InitBelief == \E G \in {Layered, Trained(Layered, NoEvidence, AllStructural)} : Start(G)

NextBelief ==
    \/ \E nodeId \in {"A", "B", "D"}, w \in BeliefWrites :
          lastOp.n < MaxBeliefOps /\ WriteCall("this", nodeId, w)
    \/ \E c \in BeliefCalls : calls < MaxBeliefCalls /\ AnalyzeCall(c)

SpecBelief == InitBelief /\ [][NextBelief]_vars


\* --- SpecPair: BN or MCS alone on A -> B, with and without evidence on A -

MaxPairCalls == 2

\* A -> B, nothing but defaults
Pair ==
    KnowledgeGraph(<<PlainNode("A"), PlainNode("B")>>, <<GraphEdge("e1", "A", "B")>>)

PairEvidenceMaps ==
    {NoEvidence} \cup
    {"A" :> a : a \in {0, 250000, 500000, 750000, 850000, 900000, 925000, 950000,
                       975000, Scale}}

\* the random numbers of the MCS calls
PairRng == [base |-> 0, step |-> 1]

PairCalls ==
    [ev : PairEvidenceMaps, algs : {<<"BN">>}, training : {TRUE}, rng : {NoRng}]
    \cup [ev : {NoEvidence, "A" :> 0}, algs : {<<"MCS">>}, training : {TRUE},
          rng : {PairRng}]

InitPair == Start(Pair)

NextPair == \E c \in PairCalls : calls < MaxPairCalls /\ AnalyzeCall(c)

SpecPair == InitPair /\ [][NextPair]_vars


\* --- SpecTerm: one analyze or runSensitivityAnalysis call on graphs with a
\* cycle, a self-loop and parallel edges -------------------------------------

MaxTermCalls == 1

\* evidence for no node, for some and for every node of the graphs
TermEvidenceMaps ==
    {NoEvidence, "A" :> 300000, EvidenceBC,
     ("A" :> 300000) @@ ("B" :> 500000) @@ ("C" :> 900000) @@ ("D" :> 0)}

TermCalls ==
    [ev : TermEvidenceMaps,
     algs : {<<a>> : a \in {"BN", "DT", "LR", "LogReg", "VI", "Transformer"}}
            \cup {<<"BN", "DT", "VI">>},
     training : {TRUE}, rng : {NoRng}]
    \cup [ev : {EvidenceBC}, algs : {<<"BN", "MCS">>, <<"BN", "MCMC">>, AlgorithmIds},
          training : {TRUE}, rng : {[base |-> 0, step |-> 1]}]

TermSensCalls ==
    [targetId : {"A", "C"}, ev : TermEvidenceMaps, algorithm : {"BN", "DT"}]

InitTerm == \E G \in {Chain, Ring, Fan} : Start(G)

NextTerm ==
    \/ \E c \in TermCalls :
          calls + SensitivityCalls < MaxTermCalls /\ AnalyzeCall(c)
    \/ \E c \in TermSensCalls :
          /\ calls + SensitivityCalls < MaxTermCalls
          /\ SensitivityCall(c.targetId, c.ev, c.algorithm)

SpecTerm == InitTerm /\ [][NextTerm]_vars


\* --- SpecCarry: learning calls with clones, a new engine on the clone and a
\* --- new edge in between

MaxCarryCalls == 2
MaxCarryOps == 2

CarryCalls ==
    [ev : {NoEvidence, "A" :> 300000},
     algs : {<<"LR">>, <<"LogReg">>, <<"Transformer">>, <<"LR", "LogReg", "Transformer">>},
     training : BOOLEAN, rng : {NoRng}]

CarryEdges == {GraphEdge("n1", "C", "A")}

\* setGraph(newGraph); new BayesianEngine(newGraph) for the graph a clone()
\* call gave: the engine now holds the clone, the graph it held is the other
EngineOnClone ==
    /\ IsDef(twin)
    /\ nodes' = Val(twin).nodes
    /\ edges' = Val(twin).edges
    /\ adjacency' = Val(twin).adjacency
    /\ twin' = Some([nodes |-> nodes, edges |-> edges, adjacency |-> adjacency,
                     shared |-> Val(twin).shared])
    /\ trainingEnabled' = TRUE
    /\ lastOp' = [op |-> "engine", side |-> "this", n |-> lastOp.n + 1]
    /\ UNCHANGED <<evidence, algorithms, runs, finalScores, preNodes, prevCall,
                   calls, sensitivity, isTraining>>

InitCarry == \E G \in {Chain, Fan} : Start(G)

NextCarry ==
    \/ \E c \in CarryCalls : calls < MaxCarryCalls /\ AnalyzeCall(c)
    \/ lastOp.n < MaxCarryOps /\ CloneCall
    \/ lastOp.n < MaxCarryOps /\ EngineOnClone
    \/ \E edge \in CarryEdges :
          /\ lastOp.n < MaxCarryOps
          /\ \A i \in DOMAIN edges : edges[i].id # edge.id
          /\ AddEdgeCall("this", edge)

SpecCarry == InitCarry /\ [][NextCarry]_vars


\* --- SpecDT: the DT runner on a long chain and on nodes with priors from
\* --- tags, under changing evidence

MaxDTCalls == 2

\* A -> B -> C -> D -> W01 -> W02 -> W03: W02 is 5 edges from A, W03 is 6
Long ==
    KnowledgeGraph(
        <<PlainNode("A"), PlainNode("B"), PlainNode("C"), PlainNode("D"),
          PlainNode("W01"), PlainNode("W02"), PlainNode("W03")>>,
        <<GraphEdge("e1", "A", "B"), GraphEdge("e2", "B", "C"), GraphEdge("e3", "C", "D"),
          GraphEdge("e4", "D", "W01"), GraphEdge("e5", "W01", "W02"),
          GraphEdge("e6", "W02", "W03")>>)

\* A -> B -> C, A and B with the tag load: '150%', C with the tag yield: '50%'
Loaded ==
    KnowledgeGraph(
        <<GraphNode("A", "part", "design", Undefined, <<>>,
                    <<PercentTag("load", 150 * Scale, FALSE)>>),
          GraphNode("B", "part", "design", Undefined, <<>>,
                    <<PercentTag("load", 150 * Scale, FALSE)>>),
          GraphNode("C", "part", "design", Undefined, <<>>,
                    <<PercentTag("yield", 50 * Scale, FALSE)>>)>>,
        <<GraphEdge("e1", "A", "B"), GraphEdge("e2", "B", "C")>>)

DTEvidenceMaps ==
    {NoEvidence, "A" :> 100000, "A" :> 500000, "B" :> 200000, "C" :> 300000,
     ("A" :> 100000) @@ ("D" :> 900000)}

DTCalls == [ev : DTEvidenceMaps, algs : {<<"DT">>}, training : {TRUE}, rng : {NoRng}]

InitDT == \E G \in {Long, Loaded, Fan, Layered} : Start(G)

NextDT == \E c \in DTCalls : calls < MaxDTCalls /\ AnalyzeCall(c)

SpecDT == InitDT /\ [][NextDT]_vars


\* --- SpecApp: the analyze calls App.tsx makes: at mount, from the
\* --- re-propagation effect, from updateGraph after an edit and from the
\* --- simulation tick.  evidence and algorithms are also the evidence and
\* --- algoConfig states of App: every call passes them.  Edges are taken as
\* --- structural; the graphs hold part nodes only.

MaxAppCalls == 3
MaxAppOps == 4

AppEvidenceMaps == {NoEvidence, "A" :> 300000}
AppAlgoConfigs == {<<"BN">>, <<"LR">>, <<"BN", "LR", "LogReg">>}
TickRngs == {[base |-> 1, step |-> 0], [base |-> 0, step |-> 2]}

\* Number.toFixed(3) followed by parseFloat
ToFixed3(x) == RoundTo(x, 1000)

\* the history after a call that followed the last one
CallBefore ==
    Some([evidence |-> evidence, algorithms |-> algorithms,
          trainingEnabled |-> trainingEnabled, preNodes |-> preNodes, runs |-> runs,
          finalScores |-> finalScores])

\* the engine made on graph G, after engine.analyze(ev, algs, training), and
\* the node map `written` the handler leaves; old is the graph App held
AppAnalyzed(G, ev, algs, training, out, written, op) ==
    /\ nodes' = written
    /\ edges' = G.edges
    /\ adjacency' = G.adjacency
    /\ trainingEnabled' = training
    /\ runs' = out.results
    /\ finalScores' = FinalScores(G.nodes, G.edges, G.adjacency, ev, Selected(algs),
                                  out.results)
    /\ evidence' = ev
    /\ algorithms' = algs
    /\ preNodes' = G.nodes
    /\ calls' = calls + 1
    /\ twin' = Some([nodes |-> nodes, edges |-> edges, adjacency |-> adjacency,
                     shared |-> {}])
    /\ lastOp' = [op |-> op, side |-> "this", n |-> lastOp.n + 1]
    /\ prevCall' \in {prevCall, CallBefore}
    /\ UNCHANGED <<sensitivity, isTraining>>

\* updateGraph(newGraph): new BayesianEngine(newGraph) and
\* bayesEngine.analyze(evidence, algoConfig), the third argument left to its
\* default (trainingEnabled = true)
UpdateGraph(G, op) ==
    LET out == RunSelected(G.nodes, G.edges, G.adjacency, evidence, algorithms, TRUE,
                           NoRng)
    IN AppAnalyzed(G, evidence, algorithms, TRUE, out, out.nodes, op)

\* handleRemoveEdge(edgeId)
HandleRemoveEdge(edgeId) ==
    /\ \E i \in DOMAIN edges : edges[i].id = edgeId
    /\ UpdateGraph(RemoveEdge(Clone(Graph(nodes, edges, adjacency)), edgeId),
                   "updateGraph")

\* setEvidence / setAlgoConfig and the re-propagation effect they start:
\* engine.analyze(evidence, algoConfig), the third argument left to its
\* default
Repropagate(ev, algs) ==
    /\ ev # evidence \/ algs # algorithms
    /\ Analyze(ev, algs, TRUE, NoRng)

\* setIsTraining(b): the switch of the AI health panel
SetIsTraining(b) ==
    /\ isTraining' = b
    /\ lastOp' = [op |-> "setIsTraining", side |-> "this", n |-> lastOp.n + 1]
    /\ UNCHANGED <<nodes, edges, adjacency, trainingEnabled, evidence, algorithms, runs,
                   finalScores, preNodes, prevCall, calls, twin, sensitivity>>

\* new Set of e.source over the edges
ComputedNodeIds(E) == {E[i].source : i \in DOMAIN E}

\* The tick for a part that is no parent: drift towards the baseline, sensor
\* noise from the draw r1, a dip when the draw r2 is above 0.98.
PartTick(node, r1, r2) ==
    LET baseline == IF DOMAIN node.customAttributes # {}
                    THEN DivInt(SumOver(node.customAttributes, DOMAIN node.customAttributes),
                                Cardinality(DOMAIN node.customAttributes))
                    ELSE DefaultPrior
        current == IF Falsy(node.working) THEN DefaultPrior ELSE Val(node.working)
        drifted == current + Mul(baseline - current, 200000)
        dipped == IF baseline > 800000 /\ r2 > 980000 THEN drifted - 100000 ELSE drifted
        noise == Mul(r1 - Half, 20000)
    IN [node EXCEPT !.working =
           Some(ToFixed3(Max2(10000, Min2(990000, dipped + noise))))]

RECURSIVE SimulateLoop(_, _, _, _, _)
\* newGraph.nodes.forEach of the tick: st.nodes are the nodes written so
\* far, st.k the number of Math.random() calls made
SimulateLoop(order, E, ev, rng, st) ==
    IF order = <<>> \/ DOMAIN st.nodes = {} THEN st
    ELSE LET id == Head(order)
             node == st.nodes[id]
         IN SimulateLoop(Tail(order), E, ev, rng,
                IF id \in DOMAIN ev
                THEN [st EXCEPT !.nodes[id].working = Some(ev[id])]
                ELSE IF node.type = "part" /\ id \notin ComputedNodeIds(E)
                THEN [nodes |-> [st.nodes EXCEPT ![id] =
                                    PartTick(node, Random(rng, st.k), Random(rng, st.k + 1))],
                      k |-> st.k + 2]
                ELSE st)

\* 3. Apply Calculated Scores to Parent Nodes
ApplyScores(N, E, simScores) ==
    [id \in DOMAIN N |->
        IF id \in ComputedNodeIds(E) /\ id \in DOMAIN simScores
        THEN [N[id] EXCEPT !.working = Some(ToFixed3(simScores[id]))]
        ELSE N[id]]

\* The simulation tick up to its updateGraph call: the clone with the
\* simulated beliefs, simEngine.analyze(evidence, algoConfig, isTraining) on
\* it, the scores written to the parents.
TickSimulate(rng) ==
    LET G == Clone(Graph(nodes, edges, adjacency))
        simulated == SimulateLoop(NodeSeq(G.nodes), G.edges, evidence, rng,
                                  [nodes |-> G.nodes, k |-> 0]).nodes
        newGraph == Graph(simulated, G.edges, G.adjacency)
        out == RunSelected(simulated, G.edges, G.adjacency, evidence, algorithms,
                           isTraining, NoRng)
        simScores == FinalScores(simulated, G.edges, G.adjacency, evidence,
                                 Selected(algorithms), out.results)
    IN AppAnalyzed(newGraph, evidence, algorithms, isTraining, out,
                   ApplyScores(out.nodes, G.edges, simScores), "tick")

\* if (changed) updateGraph(newGraph, false): the end of the tick
TickUpdate == UpdateGraph(Graph(nodes, edges, adjacency), "updateGraph")

\* App after mount: new BayesianEngine(mockGraph), analyze({}, ['BN'])
Mounted(G) ==
    LET out == RunSelected(G.nodes, G.edges, G.adjacency, NoEvidence, <<"BN">>, TRUE, NoRng)
    IN /\ nodes = out.nodes
       /\ edges = G.edges
       /\ adjacency = G.adjacency
       /\ trainingEnabled = TRUE
       /\ evidence = NoEvidence
       /\ algorithms = <<"BN">>
       /\ runs = out.results
       /\ finalScores = FinalScores(G.nodes, G.edges, G.adjacency, NoEvidence, <<"BN">>,
                                    out.results)
       /\ preNodes = G.nodes
       /\ prevCall = Undefined
       /\ calls = 1
       /\ twin = Undefined
       /\ lastOp = [op |-> "analyze", side |-> "this", n |-> 0]
       /\ sensitivity = Undefined
       /\ isTraining = TRUE

InitApp == \E G \in {Chain, Pair} : Mounted(G)

NextApp ==
    \/ /\ lastOp.op = "tick"
       /\ TickUpdate
    \/ /\ lastOp.op # "tick"
       /\ lastOp.n < MaxAppOps
       /\ \/ \E b \in BOOLEAN : b # isTraining /\ SetIsTraining(b)
          \/ /\ calls < MaxAppCalls
             /\ \/ \E ev \in AppEvidenceMaps, algs \in AppAlgoConfigs : Repropagate(ev, algs)
                \/ \E edgeId \in {"e1", "e2"} : HandleRemoveEdge(edgeId)
                \/ \E rng \in TickRngs : TickSimulate(rng)

SpecApp == InitApp /\ [][NextApp]_vars


\* --- SpecLocal: BN alone on graphs of two components, evidence in one ----

MaxLocalCalls == 2

\* A -> B and C -> D
TwoPairs ==
    KnowledgeGraph(
        <<PlainNode("A"), PlainNode("B"), PlainNode("C"), PlainNode("D")>>,
        <<GraphEdge("e1", "A", "B"), GraphEdge("e2", "C", "D")>>)

\* A -> B and C -> D -> W01, A with a stored belief of 0.3
TwoChains ==
    KnowledgeGraph(
        <<GraphNode("A", "part", "design", Some(300000), <<>>, <<>>), PlainNode("B"),
          PlainNode("C"), PlainNode("D"), PlainNode("W01")>>,
        <<GraphEdge("e1", "A", "B"), GraphEdge("e2", "C", "D"),
          GraphEdge("e3", "D", "W01")>>)

LocalEvidenceMaps ==
    {NoEvidence, "C" :> 0, "C" :> 900000, "D" :> 200000,
     "A" :> 300000, ("A" :> 300000) @@ ("C" :> 900000),
     ("A" :> 300000) @@ ("D" :> 200000), ("A" :> 950000) @@ ("C" :> 900000)}

LocalCalls == [ev : LocalEvidenceMaps, algs : {<<"BN">>}, training : {TRUE}, rng : {NoRng}]

InitLocal == \E G \in {TwoPairs, TwoChains, Fan, Ring} : Start(G)

NextLocal == \E c \in LocalCalls : calls < MaxLocalCalls /\ AnalyzeCall(c)

SpecLocal == InitLocal /\ [][NextLocal]_vars


---------------------------------------------------------------------------
(* Properties                                                              *)

StructuralRunners == {"BN", "DT", "LR", "LogReg", "VI", "Transformer"}

\* the graph nodes that have an evidence entry in the last call
EvidenceNodes == (DOMAIN evidence) \cap (DOMAIN nodes)

\* C1: each of the runners BN, DT, LR, LogReg, VI and Transformer returns,
\* for every graph node that has an evidence entry, exactly the evidence
\* value.
C1_EvidenceFidelity ==
    \A a \in (DOMAIN runs) \cap StructuralRunners :
        \A id \in EvidenceNodes : runs[a].scores[id] = evidence[id]

\* C1 witness: all six runners have run on a graph where an evidence node
\* has a parent without evidence and an evidence value other than what
\* propagation or its prior would give it.
C1_Witness ==
    /\ calls > 0
    /\ StructuralRunners \subseteq DOMAIN runs
    /\ \E id \in EvidenceNodes :
          /\ evidence[id] # GetNodePrior(nodes[id])
          /\ \E k \in DOMAIN edges :
                edges[k].target = id /\ edges[k].source \notin DOMAIN evidence

\* C2: when the algorithm set includes LogReg, MCS or MCMC, the fused score
\* of a node with an evidence entry (a value in [0,1] with at most 4
\* decimals) is exactly the evidence value.
C2_FusedEvidenceExact ==
    (calls > 0 /\ \E a \in {"LogReg", "MCS", "MCMC"} : Includes(algorithms, a))
    => \A id \in EvidenceNodes :
          (evidence[id] \in 0..Scale /\ evidence[id] % 100 = 0)
          => finalScores[id] = evidence[id]

InUnitInterval(x) == 0 <= x /\ x <= Scale

\* C5: with node priors and evidence values in [0,1], every score of every
\* runner and every fused score lies in [0,1].
C5_ScoresInUnitInterval ==
    ( /\ \A id \in DOMAIN nodes : InUnitInterval(GetNodePrior(nodes[id]))
      /\ \A id \in DOMAIN evidence : InUnitInterval(evidence[id]) )
    => /\ \A a \in DOMAIN runs :
             \A id \in DOMAIN runs[a].scores : InUnitInterval(runs[a].scores[id])
       /\ \A id \in DOMAIN finalScores : InUnitInterval(finalScores[id])

\* C5 witness: all eight runners have run with evidence on a graph node, and
\* a sampled score has been clamped to 1.
C5_Witness ==
    /\ calls > 0
    /\ DOMAIN runs = Range(AlgorithmIds)
    /\ EvidenceNodes # {}
    /\ \A id \in DOMAIN nodes : InUnitInterval(GetNodePrior(nodes[id]))
    /\ \E id \in DOMAIN nodes : runs["MCS"].scores[id] = Scale

\* the learned parameters of node id before and after the last call
ParamsBefore(id) == ParamsOf(preNodes[id])
ParamsAfter(id) == ParamsOf(nodes[id])

\* every entry of the optional map `before` is in `after` with the same value
EntriesKept(before, after) ==
    IsDef(before) =>
        /\ IsDef(after)
        /\ \A nid \in DOMAIN Val(before) :
              nid \in DOMAIN Val(after) /\ Val(after)[nid] = Val(before)[nid]

\* C3: a call with trainingEnabled=false and Transformer selected leaves
\* every attention logit that existed before the call at its value.
C3_AttentionFrozen ==
    (calls > 0 /\ ~trainingEnabled /\ Includes(algorithms, "Transformer"))
    => \A id \in DOMAIN nodes :
          EntriesKept(ParamsBefore(id).attention, ParamsAfter(id).attention)

LearnersSelected == Includes(algorithms, "LR") \/ Includes(algorithms, "LogReg")

\* the non-evidence nodes all of whose neighbors (at least one) have evidence
FedByEvidence ==
    {id \in (DOMAIN nodes) \ (DOMAIN evidence) :
        LET neighbors == GetNeighbors(edges, adjacency, id)
        IN Len(neighbors) > 0 /\ Range(neighbors) \subseteq EvidenceNodes}

\* the score LR gives a node of FedByEvidence from its neighbors' values
LRFromNeighbors(id) ==
    LET p == ParamsAfter(id)
        predictedVal == Clamp01(Val(p.bias)
                                + DotSeq(GetNeighbors(edges, adjacency, id), evidence,
                                         Val(p.weights), 0))
    IN Mul(predictedVal, Half) + Mul(GetNodePrior(nodes[id]), Half)

\* the score LogReg gives a node of FedByEvidence from its neighbors' values
LogRegFromNeighbors(id) ==
    LET p == ParamsAfter(id)
        prediction == Sigmoid(Val(p.bias)
                              + DotSeq(GetNeighbors(edges, adjacency, id), evidence,
                                       Val(p.weights), Half))
    IN Mul(prediction, LogRegModelTrust)
       + Mul(GetNodePrior(nodes[id]), LogRegTargetTrust)

\* the runners still propagate: a non-evidence node fed by evidence nodes
\* gets the score computed from its neighbors' values
C4_StillPropagates ==
    \A id \in FedByEvidence :
        /\ "LR" \in DOMAIN runs => runs["LR"].scores[id] = LRFromNeighbors(id)
        /\ "LogReg" \in DOMAIN runs => runs["LogReg"].scores[id] = LogRegFromNeighbors(id)

\* C4 as stated: a call with trainingEnabled=false and LR and/or LogReg
\* selected leaves every node's bias and every weights entry that existed
\* before the call unchanged, and the runners still propagate scores.
C4_BiasAndWeightsFrozen ==
    (calls > 0 /\ ~trainingEnabled /\ LearnersSelected)
    => /\ \A id \in DOMAIN nodes :
             /\ ParamsAfter(id).bias = ParamsBefore(id).bias
             /\ EntriesKept(ParamsBefore(id).weights, ParamsAfter(id).weights)
       /\ C4_StillPropagates

\* C4 amended: a call with trainingEnabled=false and LR and/or LogReg
\* selected leaves every bias and every weights entry that existed before
\* the call unchanged (a node without a bias may get the initial bias 0.0),
\* and the runners still propagate scores.
C4_PresentBiasAndWeightsFrozen ==
    (calls > 0 /\ ~trainingEnabled /\ LearnersSelected)
    => /\ \A id \in DOMAIN nodes :
             /\ IsDef(ParamsBefore(id).bias)
                   => ParamsAfter(id).bias = ParamsBefore(id).bias
             /\ EntriesKept(ParamsBefore(id).weights, ParamsAfter(id).weights)
       /\ C4_StillPropagates

\* C4 witness: LR ran with training off on a node that had learned a bias
\* and weights in an earlier call, and its score was moved off its prior by
\* its neighbors.
C4_Witness ==
    /\ calls > 1
    /\ ~trainingEnabled
    /\ "LR" \in DOMAIN runs
    /\ \E id \in FedByEvidence :
          /\ IsDef(ParamsBefore(id).bias)
          /\ Val(ParamsBefore(id).bias) # 0
          /\ IsDef(ParamsBefore(id).weights)
          /\ Range(GetNeighbors(edges, adjacency, id))
                \subseteq DOMAIN Val(ParamsBefore(id).weights)
          /\ runs["LR"].scores[id] # GetNodePrior(nodes[id])

\* C6: the reliability every runner reports lies in [0.1, 1.0], in
\* [0.2, 1.0] for LogReg.
C6_ReliabilityInRange ==
    \A a \in DOMAIN runs :
        /\ runs[a].reliability >= (IF a = "LogReg" THEN Scale \div 5 ELSE Scale \div 10)
        /\ runs[a].reliability <= Scale

\* the algorithm set of a call
AlgorithmSet(algs) == Range(Selected(algs))

\* C7: two analyze calls on the same graph with the same evidence and the
\* same algorithm set return the same score map when the set is drawn from
\* {BN, DT, VI}, and also with Transformer in the set when every node's
\* modelParams are the same at the start of both calls.
C7_Deterministic ==
    (calls > 1 /\ IsDef(prevCall))
    => LET p == Val(prevCall)
           sameInputs == /\ p.evidence = evidence
                         /\ AlgorithmSet(p.algorithms) = AlgorithmSet(algorithms)
       IN /\ (sameInputs /\ AlgorithmSet(algorithms) \subseteq {"BN", "DT", "VI"})
                => p.finalScores = finalScores
          /\ (sameInputs /\ p.preNodes = preNodes
                /\ AlgorithmSet(algorithms) \subseteq {"BN", "DT", "VI", "Transformer"})
                => p.finalScores = finalScores

\* C7 witness: Transformer was run twice with the same evidence from the
\* same learned attention logits, and moved a node's score off its prior.
C7_Witness ==
    /\ calls > 1
    /\ IsDef(prevCall)
    /\ Val(prevCall).evidence = evidence
    /\ Val(prevCall).algorithms = algorithms
    /\ Val(prevCall).preNodes = preNodes
    /\ "Transformer" \in DOMAIN runs
    /\ \E id \in DOMAIN nodes :
          /\ IsDef(ParamsBefore(id).attention)
          /\ runs["Transformer"].scores[id] # GetNodePrior(nodes[id])

\* C8: on the chain A -> B -> C with only BN selected and evidence on A
\* only, a call with an evidence value for A not lower than that of another
\* call returns fused scores for B and C that are not lower.
C8_Monotone ==
    (calls > 1 /\ IsDef(prevCall))
    => LET p == Val(prevCall)
       IN p.evidence["A"] <= evidence["A"]
             => /\ p.finalScores["B"] <= finalScores["B"]
                /\ p.finalScores["C"] <= finalScores["C"]

\* the isolated nodes without evidence: no parents, no children
IsolatedNodes ==
    {id \in (DOMAIN nodes) \ (DOMAIN evidence) :
        Len(GetNeighbors(edges, adjacency, id)) = 0}

\* C9 as stated: for any selected algorithm set, the fused score of a node
\* with no parents, no children and no evidence entry is its prior at
\* 4-decimal precision.
C9_IsolatedKeepsPrior ==
    calls > 0
    => \A id \in IsolatedNodes : finalScores[id] = ToFixed4(GetNodePrior(nodes[id]))

\* C9 amended: for any selected algorithm set without MCS and MCMC, the
\* fused score of a node with no parents, no children and no evidence entry
\* is within 0.0001 of its prior, and is the prior when the prior has at
\* most 4 decimals.
C9_IsolatedNearPrior ==
    (calls > 0 /\ ~Includes(algorithms, "MCS") /\ ~Includes(algorithms, "MCMC"))
    => \A id \in IsolatedNodes :
          LET prior == GetNodePrior(nodes[id])
          IN /\ Abs(finalScores[id] - prior) <= 100
             /\ prior % 100 = 0 => finalScores[id] = prior

\* C9 witness: BN ran, no sampler, another node had evidence, and an
\* isolated node whose prior has more than 4 decimals got a fused score that
\* is not the prior at 4 decimals.
C9_Witness ==
    /\ calls > 0
    /\ "BN" \in DOMAIN runs
    /\ ~Includes(algorithms, "MCS") /\ ~Includes(algorithms, "MCMC")
    /\ EvidenceNodes # {}
    /\ \E id \in IsolatedNodes :
          /\ GetNodePrior(nodes[id]) % 100 # 0
          /\ finalScores[id] # ToFixed4(GetNodePrior(nodes[id]))

\* the sophistication bias of each algorithm
SophisticationBias(a) ==
    CASE a = "BN" -> 1500000
      [] a \in {"MCMC", "MCS"} -> 1200000
      [] a = "Transformer" -> 1100000
      [] a \in {"DT", "LR", "LogReg", "VI"} -> 800000

\* w_a = reliability_a * bias_a
FusionWeight(a) == Mul(runs[a].reliability, SophisticationBias(a))

RECURSIVE WeightSum(_)
WeightSum(S) ==
    IF S = {} THEN 0
    ELSE LET a == CHOOSE x \in S : TRUE IN FusionWeight(a) + WeightSum(S \ {a})

RECURSIVE WeightedQR(_, _, _)
\* <<sum of quotients, sum of remainders>> of score_a * w_a / total over S
WeightedQR(S, id, total) ==
    IF S = {} THEN <<0, 0>>
    ELSE LET a == CHOOSE x \in S : TRUE
             qr == MulDivQR(runs[a].scores[id], FusionWeight(a), total)
             rest == WeightedQR(S \ {a}, id, total)
         IN <<qr[1] + rest[1], qr[2] + rest[2]>>

\* sum(score_a * w_a) / sum(w_a) over the runners that ran, to 4 decimals
WeightedMean4(id) ==
    LET total == WeightSum(DOMAIN runs)
        qr == WeightedQR(DOMAIN runs, id, total)
    IN ToFixed4(qr[1] + (qr[2] \div total))

RunnerScores(id) == {runs[a].scores[id] : a \in DOMAIN runs}

\* C10 as stated: with a recognised algorithm selected, the fused score of
\* each node is the weighted mean of the runners' scores rounded to 4
\* decimals, lies between the smallest and the largest runner's score, and
\* is the runner's score when a single algorithm is selected.
C10_FusionFormula ==
    (calls > 0 /\ DOMAIN runs # {})
    => \A id \in DOMAIN nodes :
          /\ finalScores[id] = WeightedMean4(id)
          /\ \E lo \in RunnerScores(id) : lo <= finalScores[id]
          /\ \E hi \in RunnerScores(id) : finalScores[id] <= hi
          /\ Cardinality(DOMAIN runs) = 1
                => \A a \in DOMAIN runs : finalScores[id] = runs[a].scores[id]

\* C10 amended: with a recognised algorithm selected, the fused score of
\* each node is the weighted mean of the runners' scores rounded to 4
\* decimals, lies less than 0.0001 outside the range from the smallest to
\* the largest runner's score, and differs by less than 0.0001 from the
\* runner's score when a single algorithm is selected.
C10_FusionFormulaRounded ==
    (calls > 0 /\ DOMAIN runs # {})
    => \A id \in DOMAIN nodes :
          /\ finalScores[id] = WeightedMean4(id)
          /\ \E lo \in RunnerScores(id) : lo - 100 < finalScores[id]
          /\ \E hi \in RunnerScores(id) : finalScores[id] < hi + 100
          /\ Cardinality(DOMAIN runs) = 1
                => \A a \in DOMAIN runs :
                      Abs(finalScores[id] - runs[a].scores[id]) < 100

\* C10 witness: runners with different biases and different scores for a
\* node were fused, and the fused score is strictly between them.
C10_Witness ==
    /\ calls > 0
    /\ {"BN", "Transformer", "DT"} \subseteq DOMAIN runs
    /\ \E id \in DOMAIN nodes :
          /\ runs["BN"].scores[id] # runs["DT"].scores[id]
          /\ \E lo, hi \in RunnerScores(id) :
                lo < finalScores[id] /\ finalScores[id] < hi

---------------------------------------------------------------------------
(* C11: the fallback of analyze                                            *)

\* the last call selected no runner: its list is empty or holds no
\* recognised id, so totalWeight stayed zero
NothingSelected == calls > 0 /\ Selected(algorithms) = <<>>

\* C11: a call of analyze whose list is empty or holds no recognised
\* algorithm id returns exactly the scores the BN runner gives for the
\* evidence of the call, with one entry for every node of the graph.
C11_FallbackIsBN ==
    NothingSelected =>
        /\ runs = <<>>
        /\ DOMAIN finalScores = DOMAIN nodes
        /\ finalScores = RunBN(preNodes, edges, adjacency, evidence).scores
        /\ \A id \in EvidenceNodes : finalScores[id] = evidence[id]

\* a call with an unrecognised id and evidence on a node, after which the
\* fallback holds a belief BN has moved away from the node's prior
C11_Witness ==
    /\ NothingSelected
    /\ algorithms # <<>>
    /\ EvidenceNodes # {}
    /\ \E id \in DOMAIN nodes : finalScores[id] # InitialScores(preNodes, evidence)[id]

---------------------------------------------------------------------------
(* C12: the rounding of the returned scores                                *)

\* x has at most `decimals` decimal places
HasDecimals(x, decimals) ==
    x % (IF decimals = 4 THEN 100 ELSE IF decimals = 5 THEN 10 ELSE 1) = 0

\* C12 as stated: every score analyze returns is rounded to 4 decimal
\* places, whatever the evidence map and the algorithm list, the empty list
\* included.
C12_RoundedToFour ==
    calls > 0 => \A id \in DOMAIN finalScores : HasDecimals(finalScores[id], 4)

\* C12, amended: every score analyze returns is rounded to 4 decimal places
\* when the list holds a recognised algorithm id; the fallback for a list
\* without one returns BN's scores, which are the evidence value as given
\* for an evidence node and a value rounded to 5 decimal places otherwise.
C12_RoundedUnlessFallback ==
    calls > 0 =>
        \A id \in DOMAIN finalScores :
            IF ~NothingSelected THEN HasDecimals(finalScores[id], 4)
            ELSE IF id \in DOMAIN evidence THEN finalScores[id] = evidence[id]
            ELSE HasDecimals(finalScores[id], 5)

\* a fused score that the rounding changed: some selected runner, evidence
\* given, holds more than 4 decimals for a node whose returned score has 4
C12_Witness ==
    /\ calls > 0
    /\ ~NothingSelected
    /\ EvidenceNodes # {}
    /\ \E id \in DOMAIN nodes :
          /\ \A a \in DOMAIN runs : ~HasDecimals(runs[a].scores[id], 4)
          /\ HasDecimals(finalScores[id], 4)

---------------------------------------------------------------------------
(* C13: evidence for ids that are not nodes of the graph                   *)

\* the entries of an evidence map whose id is a node of the graph
KnownEvidence(ev) == [id \in (DOMAIN ev) \cap (DOMAIN nodes) |-> ev[id]]

\* the last call and an earlier one differ at most in evidence entries for
\* ids the graph does not hold: same graph, same algorithms, same random
\* draws (one source in SpecStale), same entries for the graph's nodes
SameButUnknownEvidence ==
    /\ calls > 1
    /\ IsDef(prevCall)
    /\ Val(prevCall).preNodes = preNodes
    /\ AlgorithmSet(Val(prevCall).algorithms) = AlgorithmSet(algorithms)
    /\ KnownEvidence(Val(prevCall).evidence) = KnownEvidence(evidence)

\* C13: evidence entries whose id is not a node of the graph are ignored;
\* adding them to the evidence map adds no key to the result and changes no
\* runner's scores, no runner's reliability and no fused score.
C13_UnknownEvidenceIgnored ==
    /\ calls > 0 => DOMAIN finalScores = DOMAIN nodes
    /\ SameButUnknownEvidence =>
          /\ \A a \in DOMAIN runs :
                /\ Val(prevCall).runs[a].scores = runs[a].scores
                /\ Val(prevCall).runs[a].reliability = runs[a].reliability
          /\ Val(prevCall).finalScores = finalScores

---------------------------------------------------------------------------
(* C14: adjacency and getParents against the edge sequence                 *)

RECURSIVE OutTargets(_, _)
\* the targets of the edges of E whose source is id, one per edge, in the
\* order of E
OutTargets(E, id) ==
    IF E = <<>> THEN <<>>
    ELSE (IF Head(E).source = id THEN <<Head(E).target>> ELSE <<>>)
         \o OutTargets(Tail(E), id)

RECURSIVE InSources(_, _)
\* the sources of the edges of E whose target is id, one per edge, in the
\* order of E
InSources(E, id) ==
    IF E = <<>> THEN <<>>
    ELSE (IF Head(E).target = id THEN <<Head(E).source>> ELSE <<>>)
         \o InSources(Tail(E), id)

\* every node id of G has an adjacency entry, which lists the targets of
\* its outgoing edges, and getParents lists the sources of its incoming ones
AdjacencyMatchesEdges(G) ==
    \A id \in DOMAIN G.nodes :
        /\ id \in DOMAIN G.adjacency
        /\ G.adjacency[id] = OutTargets(G.edges, id)
        /\ GetParents(G.edges, id) = InSources(G.edges, id)

\* C14: after construction, after clone() and after any sequence of
\* addNode, removeNode, addEdge and removeEdge, every node id has an
\* adjacency entry that is exactly the list of targets of the edges whose
\* source is the id, one entry per edge in edge order, and getParents(id) is
\* exactly the list of sources of the edges whose target is the id.
C14_AdjacencyMatchesEdges ==
    /\ AdjacencyMatchesEdges(GraphOf("this"))
    /\ IsDef(twin) => AdjacencyMatchesEdges(GraphOf("twin"))

\* a node object was put again under an id that has parallel outgoing
\* edges, in a graph that has a clone
C14_Witness ==
    /\ IsDef(twin)
    /\ lastOp.op = "addNode"
    /\ \E side \in Sides : \E id \in DOMAIN GraphOf(side).nodes :
          /\ Len(GraphOf(side).adjacency[id]) >= 2
          /\ GraphOf(side).adjacency[id][1] = GraphOf(side).adjacency[id][2]
          /\ GetParents(GraphOf(side).edges, GraphOf(side).adjacency[id][1]) # <<>>

---------------------------------------------------------------------------
(* C15: the end points of the edges                                        *)

\* every edge of G has a source and a target that are node ids of G
EdgesWithinNodes(G) ==
    \A i \in DOMAIN G.edges :
        G.edges[i].source \in DOMAIN G.nodes /\ G.edges[i].target \in DOMAIN G.nodes

\* C15: after any sequence of addNode, removeNode, addEdge and removeEdge
\* every edge of the edge sequence has a source and a target that are ids
\* of nodes currently in the graph: no operation leaves or creates a
\* dangling edge.
C15_NoDanglingEdge ==
    /\ EdgesWithinNodes(GraphOf("this"))
    /\ IsDef(twin) => EdgesWithinNodes(GraphOf("twin"))

---------------------------------------------------------------------------
(* C16: a graph and its clone                                              *)

\* the nodes, edges and adjacency of the twin
TwinGraph == Graph(Val(twin).nodes, Val(twin).edges, Val(twin).adjacency)

\* one step, seen from the two graphs: clone() gives the ids, contents and
\* edges of the original and leaves it as it was; any other operation on
\* one graph leaves the nodes, edges and adjacency of the other as they were
CloneKeepsApart ==
    /\ lastOp'.op = "clone" =>
          /\ IsDef(twin')
          /\ DOMAIN Val(twin').nodes = DOMAIN nodes
          /\ Val(twin').nodes = nodes
          /\ Val(twin').edges = edges
          /\ UNCHANGED <<nodes, edges, adjacency>>
    /\ (lastOp'.op # "clone" /\ IsDef(twin)) =>
          /\ lastOp'.side = "this" => TwinGraph' = TwinGraph
          /\ lastOp'.side = "twin" => UNCHANGED <<nodes, edges, adjacency>>

\* C16: clone() returns a graph with the same node ids, node contents
\* (modelParams included) and edges as the original, and any later mutation
\* of either one (addNode, removeNode, addEdge, removeEdge, writes to a
\* node's beliefs, customAttributes or tags, modelParams updates made by
\* analyze) leaves the other one's nodes, edges and adjacency unchanged.
C16_CloneIndependent == [][CloneKeepsApart]_vars

\* a graph whose nodes hold learned modelParams was cloned, and a node of
\* one of the two was then written, so that they differ
C16_Witness ==
    /\ IsDef(twin)
    /\ lastOp.op = "write"
    /\ \E id \in DOMAIN Val(twin).nodes : IsDef(Val(twin).nodes[id].modelParams)
    /\ Val(twin).nodes # nodes
    /\ Val(twin).edges = edges

---------------------------------------------------------------------------
(* C17: the map runSensitivityAnalysis returns                             *)

\* a key of the map: <<nodeId>> stands for the key nodeId, <<nodeId,
\* attributeName>> for "nodeId:attributeName"
SensitivityKeyOk(k, targetId) ==
    /\ Len(k) \in {1, 2}
    /\ k[1] \in DOMAIN nodes
    /\ k[1] # targetId
    /\ Len(k) = 2 => k[2] \in DOMAIN nodes[k[1]].customAttributes

\* what lowering the value of node id by 0.2, not below 0, takes off it
ActualPerturbation(id, ev) ==
    Min2(SensitivityStep, IF id \in DOMAIN ev THEN ev[id] ELSE GetNodePrior(nodes[id]))

\* C17 as stated: every value of the map runSensitivityAnalysis returns is
\* >= 0 and in fact > 0.005; every key is the id of a graph node other than
\* targetId or names such a node and one of its customAttributes; a plain
\* node-id key is recorded only when the actual perturbation of the node's
\* value exceeded 0.001.
C17_ValuesAboveThreshold ==
    IsDef(sensitivity) =>
        \A k \in DOMAIN Val(sensitivity).map :
            /\ Val(sensitivity).map[k] >= 0
            /\ Val(sensitivity).map[k] > SensitivityMin
            /\ SensitivityKeyOk(k, Val(sensitivity).targetId)
            /\ Len(k) = 1 => ActualPerturbation(k[1], Val(sensitivity).evidence) > PerturbationMin

\* C17, amended: every value of the map is >= 0.005 (a sensitivity above
\* 0.005 is rounded to 4 decimals before it is stored, so 0.005 itself is
\* stored); keys and the test of the actual perturbation as stated.
C17_ValuesFromThreshold ==
    IsDef(sensitivity) =>
        \A k \in DOMAIN Val(sensitivity).map :
            /\ Val(sensitivity).map[k] >= SensitivityMin
            /\ HasDecimals(Val(sensitivity).map[k], 4)
            /\ SensitivityKeyOk(k, Val(sensitivity).targetId)
            /\ Len(k) = 1 => ActualPerturbation(k[1], Val(sensitivity).evidence) > PerturbationMin

\* a call that recorded a node and an attribute and left out a node whose
\* value could be lowered by 0.001 at most
C17_Witness ==
    /\ IsDef(sensitivity)
    /\ \E k \in DOMAIN Val(sensitivity).map : Len(k) = 1
    /\ \E k \in DOMAIN Val(sensitivity).map : Len(k) = 2
    /\ \E id \in DOMAIN nodes \ {Val(sensitivity).targetId} :
          /\ ActualPerturbation(id, Val(sensitivity).evidence) <= PerturbationMin
          /\ <<id>> \notin DOMAIN Val(sensitivity).map

---------------------------------------------------------------------------
(* C18: what runSensitivityAnalysis leaves behind                          *)

\* the attribute confidences of N that differ from those the call found
PerturbedConfidences(N) ==
    {<<id, k>> \in UNION {{<<id, a>> : a \in DOMAIN N[id].customAttributes} : id \in DOMAIN N} :
        N[id].customAttributes[k] # preNodes[id].customAttributes[k]}

\* C18: runSensitivityAnalysis leaves the graph and its inputs as it found
\* them: after it returns every node's beliefs['working'], present or
\* absent, and every attribute confidence are what they were before the
\* call, and the caller's evidence map is unmodified; during the call at
\* most one attribute confidence is perturbed at a time, and it stays in
\* [0,1].
C18_LeavesAsFound ==
    IsDef(sensitivity) =>
        /\ nodes = preNodes
        /\ Val(sensitivity).evidenceAfter = Val(sensitivity).evidence
        /\ \A r \in Val(sensitivity).reruns :
              /\ DOMAIN r.nodes = DOMAIN preNodes
              /\ Cardinality(PerturbedConfidences(r.nodes)) <= 1
              /\ \A id \in DOMAIN r.nodes :
                    /\ DOMAIN r.nodes[id].customAttributes = DOMAIN preNodes[id].customAttributes
                    /\ \A k \in DOMAIN r.nodes[id].customAttributes :
                          InUnitInterval(r.nodes[id].customAttributes[k])
                    /\ r.nodes[id].working \in {preNodes[id].working, Undefined}

\* a call during which a stored belief was taken out, a confidence below
\* 0.2 was lowered to 0 and an evidence value was perturbed
C18_Witness ==
    /\ IsDef(sensitivity)
    /\ \E r \in Val(sensitivity).reruns : \E id \in DOMAIN nodes :
          /\ IsDef(nodes[id].working)
          /\ ~IsDef(r.nodes[id].working)
          /\ \E k \in DOMAIN nodes[id].customAttributes :
                nodes[id].customAttributes[k] > 0 /\ r.nodes[id].customAttributes[k] = 0
    /\ \E r \in Val(sensitivity).reruns : \E id \in DOMAIN Val(sensitivity).evidence :
          r.evidence[id] # Val(sensitivity).evidence[id]

---------------------------------------------------------------------------
(* C19: the estimator of runSensitivityAnalysis                            *)

\* C19: runSensitivityAnalysis uses only BN or DT as its estimator: with
\* algorithm 'DT' every rerun is a DT run, with any other algorithm id it
\* returns the map it returns with 'BN'; it never creates or changes the
\* modelParams of a node, and it returns an empty map when targetId is not
\* a node of the graph.
C19_OnlyBNOrDT ==
    IsDef(sensitivity) =>
        /\ \A r \in Val(sensitivity).reruns :
              r.runner = IF Val(sensitivity).algorithm = "DT" THEN "DT" ELSE "BN"
        /\ Val(sensitivity).algorithm # "DT" =>
              Val(sensitivity).map =
                  RunSensitivityAnalysis(preNodes, edges, adjacency,
                                         Val(sensitivity).targetId,
                                         Val(sensitivity).evidence, "BN").map
        /\ \A id \in DOMAIN nodes : nodes[id].modelParams = preNodes[id].modelParams
        /\ Val(sensitivity).targetId \notin DOMAIN nodes => Val(sensitivity).map = <<>>

\* a call that names a learning runner, on a graph whose nodes hold learned
\* parameters, and that found an influence on the target
C19_Witness ==
    /\ IsDef(sensitivity)
    /\ Val(sensitivity).algorithm = "LR"
    /\ Val(sensitivity).map # <<>>
    /\ Cardinality(Val(sensitivity).reruns) > 1
    /\ \E id \in DOMAIN nodes : IsDef(nodes[id].modelParams)

---------------------------------------------------------------------------
(* C20: the range of the prior                                             *)

\* C20: getNodePrior returns a value in [0,1] for every node whose
\* attribute confidences and beliefs lie in [0,1], whatever strings its
\* tags hold.  The DT score of a node without edges and without evidence
\* is the value getNodePrior returned for it.
C20_PriorInUnitInterval ==
    \A id \in DOMAIN nodes :
        /\ (IsDef(nodes[id].working) => InUnitInterval(Val(nodes[id].working)))
        /\ \A k \in DOMAIN nodes[id].customAttributes :
              InUnitInterval(nodes[id].customAttributes[k])
        /\ GetNeighbors(edges, adjacency, id) = <<>>
        /\ "DT" \in DOMAIN runs
        /\ id \notin DOMAIN evidence
        => InUnitInterval(runs["DT"].scores[id])

---------------------------------------------------------------------------
(* C21: the precedence of the prior's sources                              *)

\* the mean of the confidences of a node's attributes
AttributeMean(node) ==
    DivInt(SumOver(node.customAttributes, DOMAIN node.customAttributes),
           Cardinality(DOMAIN node.customAttributes))

\* the prior by precedence: attributes, then tag factors, then the stored
\* belief, then 0.95
PrecedencePrior(node) ==
    IF DOMAIN node.customAttributes # {} THEN AttributeMean(node)
    ELSE IF TagFactors(node.tags) # <<>>
    THEN Mul(600000, DivInt(SeqSum(TagFactors(node.tags)), Len(TagFactors(node.tags))))
         + Mul(400000, 950000)
    ELSE IF IsDef(node.working) THEN Val(node.working)
    ELSE 950000

\* the stored belief of the node is not what its prior is taken from
BeliefOverridden(node) ==
    DOMAIN node.customAttributes # {} \/ TagFactors(node.tags) # <<>>

\* the last call and an earlier one were made with the same arguments on
\* graphs that differ at most in the stored belief of nodes that have
\* attributes or a tag-derived factor
SameButOverriddenBeliefs ==
    /\ calls > 1
    /\ IsDef(prevCall)
    /\ Val(prevCall).evidence = evidence
    /\ Val(prevCall).algorithms = algorithms
    /\ Val(prevCall).trainingEnabled = trainingEnabled
    /\ DOMAIN Val(prevCall).preNodes = DOMAIN preNodes
    /\ \A id \in DOMAIN preNodes :
          \/ Val(prevCall).preNodes[id] = preNodes[id]
          \/ /\ BeliefOverridden(preNodes[id])
             /\ [Val(prevCall).preNodes[id] EXCEPT !.working = Undefined]
                  = [preNodes[id] EXCEPT !.working = Undefined]

\* C21: the prior is the mean of the attribute confidences if there are
\* attributes, else 0.6 * mean(tag factors) + 0.4 * 0.95 if a tag yields a
\* factor, else beliefs['working'] if defined, else 0.95 (seen in the DT
\* score of a node without parents and without evidence); and changing the
\* stored belief of nodes that have attributes or a tag-derived factor
\* changes no score analyze returns.
C21_PriorPrecedence ==
    /\ "DT" \in DOMAIN runs =>
          \A id \in DOMAIN preNodes :
              GetParents(edges, id) = <<>> /\ id \notin DOMAIN evidence
              => runs["DT"].scores[id] = PrecedencePrior(preNodes[id])
    /\ SameButOverriddenBeliefs => Val(prevCall).finalScores = finalScores

\* two calls on graphs that differ in the stored belief of A (attributes)
\* or of B (tag factor) only
C21_Witness ==
    /\ SameButOverriddenBeliefs
    /\ \E id \in {"A", "B"} : Val(prevCall).preNodes[id].working # preNodes[id].working
    /\ "DT" \in DOMAIN runs

---------------------------------------------------------------------------
(* C22: A -> B with evidence on A, BN alone                                *)

\* the last call was analyze({A: 0.9}, ['BN']) on A -> B
PairCallWithEvidence ==
    /\ calls > 0
    /\ DOMAIN nodes = {"A", "B"}
    /\ evidence = ("A" :> 900000)
    /\ algorithms = <<"BN">>

\* C22: on A -> B without attributes, tags or stored beliefs, analyze with
\* evidence {A: 0.9} and BN alone returns for B a score strictly between
\* 0.9 and the prior 0.95, strictly closer to 0.9 than the score of B the
\* same call returns with empty evidence.
C22_PulledTowardsEvidence ==
    PairCallWithEvidence =>
        /\ 900000 < finalScores["B"]
        /\ finalScores["B"] < 950000
        /\ (IsDef(prevCall) /\ Val(prevCall).evidence = NoEvidence
               /\ Val(prevCall).algorithms = <<"BN">>)
           => Abs(finalScores["B"] - 900000)
                < Abs(Val(prevCall).finalScores["B"] - 900000)

\* the call with evidence, after the call with empty evidence
C22_Witness ==
    /\ PairCallWithEvidence
    /\ IsDef(prevCall)
    /\ Val(prevCall).evidence = NoEvidence
    /\ finalScores["B"] \in 900001..949999

---------------------------------------------------------------------------
(* C23: what an analyze call may write                                     *)

\* the runners that keep no parameters on the nodes
StatelessRunners == {"BN", "MCS", "MCMC", "DT", "VI"}

\* a node without the two fields analyze may write
Unwritable(node) == [node EXCEPT !.modelParams = Undefined, !.working = Undefined]

\* one analyze call: topology and the descriptive fields of every node are
\* kept, and the whole node when only stateless runners were asked for
AnalyzeFrame ==
    calls' = calls + 1 =>
        /\ DOMAIN nodes' = DOMAIN nodes
        /\ edges' = edges
        /\ adjacency' = adjacency
        /\ \A id \in DOMAIN nodes : Unwritable(nodes'[id]) = Unwritable(nodes[id])
        /\ Range(algorithms') \subseteq StatelessRunners => nodes' = nodes

\* C23: an analyze call never changes the node set, the edge sequence or
\* the adjacency index, nor any node's customAttributes, tags, type or
\* context; it may write modelParams and beliefs['working'] only, and with
\* algorithms drawn from {BN, MCS, MCMC, DT, VI} it writes no node state.
C23_AnalyzeFrame == [][AnalyzeFrame]_vars

\* a call with stateless runners only, on a graph whose nodes hold learned
\* parameters
C23_Witness ==
    /\ calls > 0
    /\ algorithms # <<>>
    /\ Range(algorithms) \subseteq StatelessRunners
    /\ DOMAIN runs # {}
    /\ \E id \in DOMAIN nodes : IsDef(nodes[id].modelParams)
    /\ nodes = preNodes

---------------------------------------------------------------------------
(* C24: the runners of one call                                            *)

\* the result of runner a when it is the only one selected, on the graph
\* and with the arguments of the last call (no random draws in SpecTrain)
RunAlone(a) ==
    RunSelected(preNodes, edges, adjacency, evidence, <<a>>, trainingEnabled,
                NoRng).results[a]

\* C24: within one analyze call the scores and the reliability a runner
\* produces are those it produces on the same graph state and evidence when
\* it is selected alone, whichever other runners are selected with it.
C24_RunnersIndependent ==
    calls > 0 => \A a \in DOMAIN runs : runs[a] = RunAlone(a)

---------------------------------------------------------------------------
(* C25: the propagation steps of an MCS trial                              *)

RECURSIVE BlendSteps(_, _, _, _, _)
\* the state after the steps left, each step replacing the value of every
\* non-evidence node that has parents by 0.4 * own + 0.6 * min(parents)
BlendSteps(N, E, ev, state, step) ==
    IF step < MCSSteps
    THEN BlendSteps(N, E, ev, Force(MCSCombined(N, E, ev, state)), step + 1)
    ELSE state

\* the mean over the trials of the values after the 5 steps
BlendedMeans(N, E, ev, rng) ==
    LET trials == Force([i \in 0..(MCSIterations - 1) |->
                           BlendSteps(N, E, ev,
                                      MCSInitialState(N, ev, rng, i, NodeSeq(N)), 0)])
    IN Force([id \in DOMAIN N |->
                DivInt(SumRange([i \in DOMAIN trials |-> trials[i][id]],
                                0, MCSIterations - 1), MCSIterations)])

\* the mean over the trials of the initial samples
InitialMeans(N, ev, rng) ==
    LET trials == Force([i \in 0..(MCSIterations - 1) |->
                           MCSInitialState(N, ev, rng, i, NodeSeq(N))])
    IN Force([id \in DOMAIN N |->
                DivInt(SumRange([i \in DOMAIN trials |-> trials[i][id]],
                                0, MCSIterations - 1), MCSIterations)])

\* C25: every MCS trial accumulates the values after 5 propagation steps,
\* each of which replaces the value of every non-evidence node that has
\* parents by 0.4 * own value + 0.6 * minimum of the parents' values; so on
\* A -> B with evidence A = 0 what is accumulated for B lies below its
\* initial samples.
C25_MCSPropagates ==
    calls > 0 /\ algorithms = <<"MCS">> =>
        /\ runs["MCS"].scores = BlendedMeans(preNodes, edges, evidence, PairRng)
        /\ evidence = ("A" :> 0) =>
              runs["MCS"].scores["B"] < InitialMeans(preNodes, evidence, PairRng)["B"]

---------------------------------------------------------------------------
(* C26: termination                                                        *)

RECURSIVE BNAfter(_, _, _, _, _, _)
\* the loop state of runBN after k more passes (up to the cap), whatever
\* the changes
BNAfter(N, E, adj, ev, st, k) ==
    IF k = 0 \/ st.iter >= BNMaxIter THEN st ELSE BNAfter(N, E, adj, ev, BNPass(N, E, adj, ev, st), k - 1)

\* the relaxation of a BN run on N with evidence ev: at most 50 passes, no
\* pass after one whose largest change is within the tolerance, a single
\* pass when every node has evidence
BNStopsInTime(N, E, adj, ev) ==
    LET st == BNFinal(N, E, adj, ev)
        start == [iter |-> 0, maxDelta |-> Delta450(Scale), scores |-> InitialScores(N, ev)]
    IN /\ st.iter \in 1..BNMaxIter
       /\ st.iter < BNMaxIter => st.maxDelta <= Delta450(BNTolerance)
       /\ \A k \in 1..(st.iter - 1) :
             BNAfter(N, E, adj, ev, start, k).maxDelta > Delta450(BNTolerance)
       /\ DOMAIN N \subseteq DOMAIN ev => st.iter = 1

\* C26: analyze and runSensitivityAnalysis return on graphs with cycles,
\* self-loops and parallel edges, for every evidence map: every selected
\* runner gives a score for every node, BN makes at most 50 relaxation
\* passes and stops as soon as the largest change of a pass is within the
\* tolerance (after one pass when every node has evidence).
C26_Terminates ==
    /\ calls > 0 =>
          /\ DOMAIN finalScores = DOMAIN nodes
          /\ DOMAIN runs = Range(Selected(algorithms))
          /\ \A a \in DOMAIN runs : DOMAIN runs[a].scores = DOMAIN nodes
          /\ "BN" \in DOMAIN runs => BNStopsInTime(preNodes, edges, adjacency, evidence)
    /\ IsDef(sensitivity) =>
          /\ Val(sensitivity).reruns # {}
          /\ \A r \in Val(sensitivity).reruns :
                r.runner = "BN" => BNStopsInTime(r.nodes, edges, adjacency, r.evidence)

\* BN on the graph with the self-loop and the parallel edges, stopped by
\* the tolerance after more than one pass
C26_Witness ==
    /\ calls > 0
    /\ "BN" \in DOMAIN runs
    /\ \E i \in DOMAIN edges : edges[i].source = edges[i].target
    /\ BNFinal(preNodes, edges, adjacency, evidence).iter \in 2..(BNMaxIter - 1)

---------------------------------------------------------------------------
(* C27: learned parameters carry forward between calls                     *)

\* the neighbors of node id in the graph the engine holds
NeighborsNow(id) == GetNeighbors(edges, adjacency, id)

\* node id is one the LR and Transformer runners of the last call worked on
Learns(id) == id \notin DOMAIN evidence /\ Len(NeighborsNow(id)) > 0

\* every key of the optional map `before` is a key of `after`
KeysKept(before, after) ==
    IsDef(before) => IsDef(after) /\ DOMAIN Val(before) \subseteq DOMAIN Val(after)

\* the optional map opt with the value fresh[nid] for each neighbor nid it
\* has no entry for
Completed(opt, neighbors, fresh) ==
    LET old == IF IsDef(opt) THEN Val(opt) ELSE <<>>
    IN Some(Force([nid \in (DOMAIN old) \cup Range(neighbors) |->
                     IF nid \in DOMAIN old THEN old[nid] ELSE fresh[nid]]))

\* the nodes the last call started from, each missing LR weight of a node
\* the runner works on set to 1/neighborCount beforehand
WeightsPrefilled ==
    [id \in DOMAIN preNodes |->
        IF Learns(id)
        THEN [preNodes[id] EXCEPT !.modelParams =
                Some([ParamsOf(preNodes[id]) EXCEPT !.weights =
                        Completed(@, NeighborsNow(id),
                                  [nid \in Range(NeighborsNow(id)) |->
                                      DivInt(Scale, Len(NeighborsNow(id)))])])]
        ELSE preNodes[id]]

\* the same for the attention logits: 1.0 for the same context plus 0.5 for
\* the same type
AttentionPrefilled ==
    [id \in DOMAIN preNodes |->
        IF Learns(id)
        THEN [preNodes[id] EXCEPT !.modelParams =
                Some([ParamsOf(preNodes[id]) EXCEPT !.attention =
                        Completed(@, NeighborsNow(id),
                                  [nid \in Range(NeighborsNow(id)) |->
                                      (IF preNodes[nid].context = preNodes[id].context
                                       THEN Scale ELSE 0)
                                      + (IF preNodes[nid].type = preNodes[id].type
                                         THEN Half ELSE 0)])])]
        ELSE preNodes[id]]

\* what holds of the parameters right after an analyze call
CarriedByCall ==
    /\ \A id \in DOMAIN preNodes :
          \* no entry is lost
          /\ KeysKept(ParamsBefore(id).weights, ParamsAfter(id).weights)
          /\ KeysKept(ParamsBefore(id).attention, ParamsAfter(id).attention)
          /\ IsDef(ParamsBefore(id).bias) => IsDef(ParamsAfter(id).bias)
          \* with training off an existing weight or bias keeps its value
          /\ ~trainingEnabled =>
                /\ EntriesKept(ParamsBefore(id).weights, ParamsAfter(id).weights)
                /\ IsDef(ParamsBefore(id).bias) =>
                      ParamsAfter(id).bias = ParamsBefore(id).bias
          \* an entry for each current neighbor
          /\ (Learns(id) /\ Includes(algorithms, "LR")) =>
                /\ IsDef(ParamsAfter(id).weights)
                /\ Range(NeighborsNow(id)) \subseteq DOMAIN Val(ParamsAfter(id).weights)
          /\ (Learns(id) /\ Includes(algorithms, "Transformer")) =>
                /\ IsDef(ParamsAfter(id).attention)
                /\ Range(NeighborsNow(id)) \subseteq DOMAIN Val(ParamsAfter(id).attention)
    \* the call gives what it gives on the graph with the missing entries
    \* filled in beforehand: existing entries are used as they are
    /\ algorithms = <<"LR">> =>
          nodes = RunLinearRegression(WeightsPrefilled, edges, adjacency, evidence,
                                      trainingEnabled).nodes
    /\ algorithms = <<"Transformer">> =>
          nodes = RunTransformer(AttentionPrefilled, edges, adjacency, evidence).nodes

\* a step of the engine carries the learned parameters forward
CarryStep ==
    \* analyze starts from the nodes the engine holds
    /\ calls' = calls + 1 => preNodes' = nodes
    \* clone() copies the parameters and leaves those of the original
    /\ (lastOp'.op = "clone" /\ lastOp'.n = lastOp.n + 1) =>
          /\ nodes' = nodes
          /\ \A id \in DOMAIN nodes :
                Val(twin').nodes[id].modelParams = nodes[id].modelParams
    \* a new engine on the clone holds the parameters of the clone
    /\ (lastOp'.op = "engine" /\ lastOp'.n = lastOp.n + 1) =>
          \A id \in DOMAIN nodes' :
             nodes'[id].modelParams = Val(twin).nodes[id].modelParams
    \* a new edge touches no parameter
    /\ (lastOp'.op = "addEdge" /\ lastOp'.n = lastOp.n + 1) =>
          \A id \in DOMAIN nodes : nodes'[id].modelParams = nodes[id].modelParams

\* C27: learned parameters carry forward between calls.  An analyze call
\* with LR, LogReg or Transformer loses no weight, bias or attention entry
\* of a node and re-initialises none: lazy initialisation only fills the
\* missing entries (LR weight 1/neighborCount, attention logit 1.0 for the
\* same context plus 0.5 for the same type), and with training off the
\* existing weights and the bias keep their values.  After a call with LR
\* (Transformer) every non-evidence node with a neighbor has a weight (a
\* logit) for each current neighbor.  A call starts from the nodes the
\* engine holds; clone() copies the parameters, and an engine made on the
\* clone holds them.
C27_ParamsCarryForward ==
    /\ []((calls > 0 /\ lastOp.op = "analyze") => CarriedByCall)
    /\ [][CarryStep]_vars

\* the second call, with training off, after a clone() and a new edge: a
\* trained weight kept, a new one filled in
C27_Witness ==
    /\ calls = 2 /\ lastOp.op = "analyze" /\ lastOp.n = 2
    /\ IsDef(twin)
    /\ ~trainingEnabled /\ Includes(algorithms, "LR")
    /\ \E id \in DOMAIN nodes :
          /\ Learns(id)
          /\ IsDef(ParamsBefore(id).weights)
          /\ \E nid \in DOMAIN Val(ParamsBefore(id).weights) :
                /\ Val(ParamsBefore(id).weights)[nid]
                      # DivInt(Scale, Len(NeighborsNow(id)))
                /\ Val(ParamsAfter(id).weights)[nid] = Val(ParamsBefore(id).weights)[nid]
          /\ \E nid \in DOMAIN Val(ParamsAfter(id).weights) :
                nid \notin DOMAIN Val(ParamsBefore(id).weights)

---------------------------------------------------------------------------
(* C28: the DT runner: downstream, 5 edges far                             *)

\* the nodes with an edge from a node of S
ChildrenOf(S) == {edges[i].target : i \in {j \in DOMAIN edges : edges[j].source \in S}}

RECURSIVE WithinEdges(_, _)
\* the nodes reachable from a node of S along at most k edges
WithinEdges(S, k) ==
    IF k = 0 THEN S ELSE WithinEdges(S \cup ChildrenOf(S), k - 1)

\* the parents of node id, as a set
ParentSet(id) == {edges[i].source : i \in {j \in DOMAIN edges : edges[j].target = id}}

\* the smallest element of a non-empty set of numbers
MinOfSet(S) == CHOOSE x \in S : \A y \in S : x <= y

\* the prior of node id in the last call
PriorOf(id) == GetNodePrior(preNodes[id])

\* the scores of the last call after k passes in which a non-evidence node
\* with parents takes the smallest of its prior, of its parents' scores of
\* the pass before and of the values in `caps`
RECURSIVE MinPasses(_, _)
MinPasses(k, caps) ==
    IF k = 0
    THEN [id \in DOMAIN preNodes |->
            IF id \in DOMAIN evidence THEN evidence[id] ELSE PriorOf(id)]
    ELSE LET before == MinPasses(k - 1, caps)
         IN IF DOMAIN before = {} THEN before
            ELSE [id \in DOMAIN preNodes |->
                    IF id \in DOMAIN evidence \/ ParentSet(id) = {} THEN before[id]
                    ELSE MinOfSet({PriorOf(id)} \cup caps
                                   \cup {before[p] : p \in ParentSet(id)})]

\* the last call ran DT
DTRan == calls > 0 /\ "DT" \in DOMAIN runs

\* a node with parents never exceeds its prior, one without keeps it
CappedByPrior ==
    DTRan =>
        \A id \in DOMAIN preNodes \ DOMAIN evidence :
            IF ParentSet(id) = {} THEN runs["DT"].scores[id] = PriorOf(id)
            ELSE runs["DT"].scores[id] <= PriorOf(id)

\* the last call and an earlier one ran DT on the same nodes with evidence
\* that differs in the value given for X only
EvidenceChangedAt(X) ==
    /\ DTRan /\ IsDef(prevCall) /\ "DT" \in DOMAIN Val(prevCall).runs
    /\ Val(prevCall).preNodes = preNodes
    /\ X \in DOMAIN evidence /\ X \in DOMAIN Val(prevCall).evidence
    /\ DOMAIN Val(prevCall).evidence = DOMAIN evidence
    /\ evidence[X] # Val(prevCall).evidence[X]
    /\ \A k \in DOMAIN evidence \ {X} : Val(prevCall).evidence[k] = evidence[k]

\* a changed evidence value of X shows at X and within 5 edges of X only
ShowsDownstream ==
    \A X \in DOMAIN preNodes :
        EvidenceChangedAt(X) =>
            \A id \in DOMAIN preNodes \ WithinEdges({X}, 5) :
                Val(prevCall).runs["DT"].scores[id] = runs["DT"].scores[id]

---------------------------------------------------------------------------
(* C29: the training switch of the application                             *)

\* the last step was an analyze call of the application, made with the
\* switch off
CalledWhileOff ==
    /\ ~isTraining
    /\ calls > 1
    /\ lastOp.op \in {"analyze", "tick", "updateGraph"}

\* C29: while the training switch is off (isTraining = false), no analyze
\* call the application makes (from the simulation tick, from updateGraph
\* or from the re-propagation effect) changes a weight or the bias a node
\* holds.
C29_SwitchOffFreezes ==
    CalledWhileOff =>
        \A id \in DOMAIN preNodes :
            /\ EntriesKept(ParamsBefore(id).weights, ParamsAfter(id).weights)
            /\ IsDef(ParamsBefore(id).bias) => ParamsAfter(id).bias = ParamsBefore(id).bias

---------------------------------------------------------------------------
(* C30: BN alone: evidence acts within its component                       *)

\* the nodes one edge away from a node of S, in either direction
Adjacent(S) ==
    {edges[i].target : i \in {j \in DOMAIN edges : edges[j].source \in S}}
    \cup {edges[i].source : i \in {j \in DOMAIN edges : edges[j].target \in S}}

RECURSIVE Connected(_)
\* the nodes joined to a node of S by edges, whatever their direction
Connected(S) ==
    IF Adjacent(S) \subseteq S THEN S ELSE Connected(S \cup Adjacent(S))

\* the weakly connected component of node id
Component(id) == Connected({id})

\* the evidence maps e1 and e2 say the same of node k
SameEvidenceAt(e1, e2, k) ==
    /\ k \in DOMAIN e1 <=> k \in DOMAIN e2
    /\ k \in DOMAIN e1 => e1[k] = e2[k]

\* the last call and an earlier one ran BN alone on the same nodes
TwoBNCalls ==
    /\ calls > 1 /\ IsDef(prevCall)
    /\ algorithms = <<"BN">> /\ Val(prevCall).algorithms = <<"BN">>
    /\ Val(prevCall).preNodes = preNodes

\* C30: with only BN selected, evidence acts locally: two calls whose
\* evidence differs at nodes outside the weakly connected component of a
\* node only give that node the same fused score.
C30_EvidenceLocal ==
    TwoBNCalls =>
        \A id \in DOMAIN preNodes :
            (\A k \in Component(id) : SameEvidenceAt(Val(prevCall).evidence, evidence, k))
            => Val(prevCall).finalScores[id] = finalScores[id]

====
